---------------------------- MODULE Spec2Model ----------------------------
(***************************************************************************)
(* Verification model of the Slack credential-acquisition pipeline:        *)
(*   - the challenge solver clients (CapsolverProvider and                 *)
(*     SolveCaptchaProvider), run side by side against one solving service *)
(*     (specification SpecSolver);                                         *)
(*   - the inbox poller pollForSlackCode with extractCodeFromMessage       *)
(*     (specification SpecPoller);                                         *)
(*   - the login driver script with handleSlackLoginFlow and               *)
(*     clickWorkspace (specification SpecFlow).                            *)
(***************************************************************************)
EXTENDS Integers, Sequences, FiniteSets, TLC

VARIABLES
    \* ---- challenge solver (one run of solveCaptcha per provider) ----
    svcCreate,      \* state of the solving service at task creation
    svcPolls,       \* states of the task at the polls made so far
    maxAttempts,    \* options.maxAttempts
    spc,            \* per provider: position in solveCaptcha
    createResponse, \* per provider: what createTask returned
    attempts,       \* per provider: the loop counter
    createCalls,    \* per provider: number of createTask calls
    getCalls,       \* per provider: number of getTaskResult calls
    results,        \* per provider: the results getTaskResult returned
    outcome,        \* per provider: how solveCaptcha settled
    \* ---- inbox poller (one call of pollForSlackCode) ----
    now,                  \* the clock, in ms since the call began
    startTime,            \* startTime
    searchAfterTimestamp, \* searchAfterTimestamp (notBefore), ms since epoch
    maxWaitMinutes,       \* maxWaitMinutes, in thousandths of a minute
    ppc,                  \* position in pollForSlackCode
    messages,             \* length of response.data.messages of the current
                          \* search (its entries are drawn as the loop reaches them)
    msgIdx,               \* index of the for loop over messages
    searches,             \* number of messages.list calls
    searchElapsed,        \* ms elapsed when the last search was started
    lastFetched,          \* last message fetched and what was done with it
    inspected,            \* ids of the messages passed to extractCodeFromMessage
    pollOutcome,          \* how pollForSlackCode settled
    \* ---- login flow (driver script, handleSlackLoginFlow, clickWorkspace) ----
    fpc,                  \* position of the driver script and of the flow
    page,                 \* the screen the browser shows
    targets,              \* click targets of the workspace that are visible and enabled
    working,              \* the target whose click opens the workspace
    workspaceSelectionAttempted,  \* the flag of handleSlackLoginFlow
    firstProbe,           \* the screen the first probe of the flow saw
    branch,               \* the branch handleSlackLoginFlow took
    pollerCalls,          \* invocations of getSlackVerificationCode
    clickCalls,           \* invocations of clickWorkspace
    verifiedClicks,       \* clicks verifyWorkspaceClickSucceeded confirmed
    clickedVia,           \* the target of the last verified click
    receivedCode,         \* the code getSlackVerificationCode returned
    enteredCode,          \* the characters filled into the six inputs
    flowOutcome,          \* how handleSlackLoginFlow settled
    runOutcome,           \* how the driver script ended
    error,                \* the error thrown, if any
    effect,               \* what the click on the working target brings about
    clickLog,             \* the clicks of the last clickWorkspace call, verified or not
    clickResult,          \* how the last clickWorkspace call settled
    probes,               \* probes of the page handleSlackLoginFlow has made
    secondProbe,          \* the screen its second probe saw
    thrown,               \* the Error handleSlackLoginFlow rejected with
    \* ---- token interceptor (interceptSlackAuthWithCookies) ----
    ipc,                  \* position of interceptSlackAuthWithCookies
    cookiesReplayed,      \* addCookies has put the stored cookies into the context
    routeInstalled,       \* page.route has registered the handler
    timer,                \* the 30 s timer: none, armed, cleared or fired
    clock,                \* ms since the timer was armed
    tokenPromise,         \* state and value of tokenPromise
    capturedToken,        \* the variable capturedToken
    navigation,           \* page.goto: idle, started, done or failed
    intercepted,          \* requests the route handler was called for
    continued,            \* calls of route.continue()
    unobserved,           \* matching requests made while no handler was registered
    firstToken,           \* the first token a handler call accepted
    lastBody,             \* name of the body of the last intercepted request
    lastExtracted,        \* what extractTokenFromFormData returned for it
    captureOutcome,       \* how interceptSlackAuthWithCookies settled
    \* ---- token-capture session and SlackApi ----
    caller,               \* who runs the session: the plugin or the capture script
    sessionPc,            \* position of the caller
    browserOpen,          \* the browser of chromium.launch() is open
    contextOpen,          \* the context of browser.newContext() is open
    hookRegistered,       \* the plugin's onClose hook is registered
    sessionOutcome,       \* how the session ended
    served,               \* requests the plugin's routes have served
    lastCall,             \* the last SlackApi call: operation, responses, outcome
    \* ---- cookie transformer ----
    cookiesPc,            \* loaded, then transformed
    rawCookies,           \* the array given to transformCookies
    rawCookiesAtLoad,     \* the same array as it was loaded
    playwrightCookies,    \* the array transformCookies returned
    \* ---- notBefore timestamp of the verification wait ----
    stampPc,              \* position of the driver and of waitForVerificationPageAndGetCode
    wallClock,            \* the time, in ms since the run began
    suppliesTimestamp,    \* the caller passes searchConfirmationMailAfter
    searchConfirmationMailAfter, \* the timestamp the caller captured, NaN when it passes none
    transitionAt,         \* when the submit click made the page change, NaN before
    mailReceivedAt,       \* when the verification email was received, NaN before
    notBefore,            \* searchAfterTimestamp handed to the poller, NaN before
    mailDecision,         \* what the poller decides about the email
    \* ---- completion callback of the widget (index.ts) ----
    callbackPc,           \* position of the callback script: ready, done
    clientFound,          \* config.clients[clientId] is an object
    client,               \* value held at each callback path of the client
    callbackToken,        \* the solved token handed to the script
    callbackPath,         \* path of the function the script invoked
    calledWith,           \* argument the invoked function received
    \* ---- injectTokenIntoGrecaptcha (page script) ----
    injectPc,             \* position of the injection script
    configPresent,        \* ___grecaptcha_cfg and its clients exist
    nullClient,           \* clients holds a second entry whose value is null
    edges,                \* object graph of the client: object -> key -> object
    kindOfB,              \* structural fingerprint of object b
    hasGetResponse,       \* objects of the page that own a getResponse function
    windowGrecaptcha,     \* the global window.grecaptcha
    stack,                \* frames of findAndOverrideGetResponse, innermost first
    searched,             \* <<object, depth>> whose properties the search enumerated
    overriddenOriginal,   \* owners of a getResponse of the page that was replaced
    created,              \* objects that were given a new grecaptcha.getResponse
    totalOverrides,       \* totalOverrides
    injectResult,         \* value injectTokenIntoGrecaptcha returned
    \* ---- dismissCookieBanners and its callers ----
    bannerPc,             \* position inside dismissCookieBanners
    bannerCaller,         \* function that called dismissCookieBanners
    banner,               \* cookie banner shown by the page
    faultAt,              \* page operation that throws, if any
    bannerDismissed,      \* a banner button was clicked
    dismissOutcome,       \* how dismissCookieBanners ended
    callerState,          \* what the caller did after the dismissal step
    \* ---- settings read by the login driver and by getSlackVerificationCode ----
    configPc,             \* position of the driver with respect to its settings
    settingsPresent,      \* environment variables that are set
    verificationAsked,    \* the login lands on the verification page
    operationsStarted,    \* browser, solver and inbox operations started so far
    configError,          \* missing-setting error raised, if any
    \* ---- getEmailBody on MIME payload trees ----
    bodyPc,               \* position: ready, done
    mimePayload,          \* payload handed to getEmailBody
    emailBody,            \* what getEmailBody returned (empty for null)
    \* ---- error handling of the strategies of clickWorkspace ----
    cwPc,                 \* index of the strategy clickWorkspace is at (0: not started, 8: over)
    cwTargets,            \* strategies whose element is on the page
    cwThrowing,           \* strategies whose click throws
    cwWorking,            \* strategy whose click is verified
    cwAttempts,           \* strategies whose element was clicked, in order
    cwOutcome,            \* how the call of clickWorkspace ended
    cwError,              \* error the call of clickWorkspace threw
    \* ---- the API server: plugin registration, listen, routes ----
    srvPc,                \* where the server start-up is
    srvCapture,           \* how createSlackApi settled in the plugin
    srvDecorated,         \* fastify.slackApi, browser, workspaceUrl are decorated
    srvRoutes,            \* the routes plugin has registered its routes
    srvListening,         \* the server accepts requests
    srvListens,           \* successful fastify.listen calls
    srvHandled,           \* route handlers run so far
    srvLastReply,         \* the reply of the last route handler
    srvExit               \* how the process ended

solverVars == <<svcCreate, svcPolls, maxAttempts, spc, createResponse,
                attempts, createCalls, getCalls, results, outcome>>

pollerVars == <<now, startTime, searchAfterTimestamp, maxWaitMinutes, ppc,
                messages, msgIdx, searches, searchElapsed, lastFetched,
                inspected, pollOutcome>>

flowVars == <<fpc, page, targets, working, workspaceSelectionAttempted,
              firstProbe, branch, pollerCalls, clickCalls, verifiedClicks,
              clickedVia, receivedCode, enteredCode, flowOutcome, runOutcome, error,
              effect, clickLog, clickResult,
              probes, secondProbe, thrown>>

captureVars == <<ipc, cookiesReplayed, routeInstalled, timer, clock, tokenPromise,
                 capturedToken, navigation, intercepted, continued, unobserved,
                 firstToken, lastBody, lastExtracted, captureOutcome>>

sessionVars == <<caller, sessionPc, browserOpen, contextOpen, hookRegistered,
                 sessionOutcome, served, lastCall>>

cookieVars == <<cookiesPc, rawCookies, rawCookiesAtLoad, playwrightCookies>>

stampVars == <<stampPc, wallClock, suppliesTimestamp, searchConfirmationMailAfter,
               transitionAt, mailReceivedAt, notBefore, mailDecision>>

callbackVars == <<callbackPc, clientFound, client, callbackToken, callbackPath, calledWith>>

injectVars == <<injectPc, configPresent, nullClient, edges, kindOfB, hasGetResponse, windowGrecaptcha, stack, searched, overriddenOriginal, created, totalOverrides, injectResult>>

bannerVars == <<bannerPc, bannerCaller, banner, faultAt, bannerDismissed, dismissOutcome, callerState>>

configVars == <<configPc, settingsPresent, verificationAsked, operationsStarted, configError>>

bodyVars == <<bodyPc, mimePayload, emailBody>>

clickVars == <<cwPc, cwTargets, cwThrowing, cwWorking, cwAttempts, cwOutcome, cwError>>

serverVars == <<srvPc, srvCapture, srvDecorated, srvRoutes, srvListening, srvListens, srvHandled, srvLastReply, srvExit>>

vars == <<solverVars, pollerVars, flowVars, captureVars, sessionVars, cookieVars, stampVars, callbackVars, injectVars, bannerVars, configVars, bodyVars, clickVars, serverVars>>

\* What the actions of one component leave alone.
notSolverVars == <<pollerVars, flowVars, captureVars, sessionVars, cookieVars, stampVars, callbackVars, injectVars, bannerVars, configVars, bodyVars, clickVars, serverVars>>
notPollerVars == <<solverVars, flowVars, captureVars, sessionVars, cookieVars, stampVars, callbackVars, injectVars, bannerVars, configVars, bodyVars, clickVars, serverVars>>
notFlowVars == <<solverVars, pollerVars, captureVars, sessionVars, cookieVars, stampVars, callbackVars, injectVars, bannerVars, configVars, bodyVars, clickVars, serverVars>>
notCaptureVars == <<solverVars, pollerVars, flowVars, sessionVars, cookieVars, stampVars, callbackVars, injectVars, bannerVars, configVars, bodyVars, clickVars, serverVars>>
notSessionVars == <<solverVars, pollerVars, flowVars, captureVars, cookieVars, stampVars, callbackVars, injectVars, bannerVars, configVars, bodyVars, clickVars, serverVars>>
notCookieVars == <<solverVars, pollerVars, flowVars, captureVars, sessionVars, stampVars, callbackVars, injectVars, bannerVars, configVars, bodyVars, clickVars, serverVars>>
notStampVars == <<solverVars, pollerVars, flowVars, captureVars, sessionVars, cookieVars, callbackVars, injectVars, bannerVars, configVars, bodyVars, clickVars, serverVars>>
notCallbackVars == <<solverVars, pollerVars, flowVars, captureVars, sessionVars, cookieVars, stampVars, injectVars, bannerVars, configVars, bodyVars, clickVars, serverVars>>
notInjectVars == <<solverVars, pollerVars, flowVars, captureVars, sessionVars, cookieVars, stampVars, callbackVars, bannerVars, configVars, bodyVars, clickVars, serverVars>>
notBannerVars == <<solverVars, pollerVars, flowVars, captureVars, sessionVars, cookieVars, stampVars, callbackVars, injectVars, configVars, bodyVars, clickVars, serverVars>>
notConfigVars == <<solverVars, pollerVars, flowVars, captureVars, sessionVars, cookieVars, stampVars, callbackVars, injectVars, bannerVars, bodyVars, clickVars, serverVars>>
notBodyVars == <<solverVars, pollerVars, flowVars, captureVars, sessionVars, cookieVars, stampVars, callbackVars, injectVars, bannerVars, configVars, clickVars, serverVars>>
notClickVars == <<solverVars, pollerVars, flowVars, captureVars, sessionVars, cookieVars, stampVars, callbackVars, injectVars, bannerVars, configVars, bodyVars, serverVars>>
notServerVars == <<solverVars, pollerVars, flowVars, captureVars, sessionVars, cookieVars, stampVars, callbackVars, injectVars, bannerVars, configVars, bodyVars, clickVars>>

NoValue == "undefined"

\* Not-a-number: the value of parseInt(undefined), and of a time not set yet.
NaN == -1

\* The components that a specification does not run stay idle.
SolverIdle ==
    /\ svcCreate = NoValue /\ svcPolls = <<>> /\ maxAttempts = 0
    /\ spc = NoValue /\ createResponse = NoValue /\ attempts = NoValue
    /\ createCalls = NoValue /\ getCalls = NoValue /\ results = NoValue
    /\ outcome = NoValue

PollerIdle ==
    /\ now = 0 /\ startTime = 0 /\ searchAfterTimestamp = 0
    /\ maxWaitMinutes = 0 /\ ppc = "idle" /\ messages = 0 /\ msgIdx = 0
    /\ searches = 0 /\ searchElapsed = 0 /\ lastFetched = NoValue
    /\ inspected = {} /\ pollOutcome = NoValue

FlowIdle ==
    /\ fpc = "idle" /\ page = NoValue /\ targets = {} /\ working = NoValue
    /\ workspaceSelectionAttempted = FALSE /\ firstProbe = NoValue
    /\ branch = NoValue /\ pollerCalls = 0 /\ clickCalls = 0
    /\ verifiedClicks = 0 /\ clickedVia = NoValue /\ receivedCode = << >>
    /\ enteredCode = << >> /\ flowOutcome = NoValue /\ runOutcome = NoValue
    /\ error = NoValue /\ effect = NoValue /\ clickLog = << >>
    /\ clickResult = NoValue /\ probes = 0 /\ secondProbe = NoValue
    /\ thrown = NoValue

CaptureIdle ==
    /\ ipc = "idle" /\ cookiesReplayed = FALSE /\ routeInstalled = FALSE
    /\ timer = NoValue /\ clock = 0 /\ tokenPromise = NoValue
    /\ capturedToken = << >> /\ navigation = NoValue /\ intercepted = 0
    /\ continued = 0 /\ unobserved = 0 /\ firstToken = << >>
    /\ lastBody = NoValue /\ lastExtracted = << >> /\ captureOutcome = NoValue

SessionIdle ==
    /\ caller = NoValue /\ sessionPc = "idle" /\ browserOpen = FALSE
    /\ contextOpen = FALSE /\ hookRegistered = FALSE
    /\ sessionOutcome = NoValue /\ served = 0 /\ lastCall = NoValue

StampIdle ==
    /\ stampPc = "idle"
    /\ wallClock = 0
    /\ suppliesTimestamp = FALSE
    /\ searchConfirmationMailAfter = NaN
    /\ transitionAt = NaN
    /\ mailReceivedAt = NaN
    /\ notBefore = NaN
    /\ mailDecision = NoValue

CallbackIdle ==
    /\ callbackPc = "idle"
    /\ clientFound = FALSE
    /\ client = << >>
    /\ callbackToken = NoValue
    /\ callbackPath = NoValue
    /\ calledWith = NoValue

InjectIdle ==
    /\ injectPc = "idle"
    /\ configPresent = FALSE
    /\ nullClient = FALSE
    /\ edges = << >>
    /\ kindOfB = NoValue
    /\ hasGetResponse = {}
    /\ windowGrecaptcha = NoValue
    /\ stack = << >>
    /\ searched = {}
    /\ overriddenOriginal = {}
    /\ created = {}
    /\ totalOverrides = 0
    /\ injectResult = NoValue

BannerIdle ==
    /\ bannerPc = "idle"
    /\ bannerCaller = NoValue
    /\ banner = NoValue
    /\ faultAt = NoValue
    /\ bannerDismissed = FALSE
    /\ dismissOutcome = NoValue
    /\ callerState = NoValue

ConfigIdle ==
    /\ configPc = "idle"
    /\ settingsPresent = {}
    /\ verificationAsked = FALSE
    /\ operationsStarted = {}
    /\ configError = NoValue

BodyIdle ==
    /\ bodyPc = "idle"
    /\ mimePayload = << >>
    /\ emailBody = << >>

ClickIdle ==
    /\ cwPc = 0
    /\ cwTargets = {}
    /\ cwThrowing = {}
    /\ cwWorking = NoValue
    /\ cwAttempts = << >>
    /\ cwOutcome = NoValue
    /\ cwError = NoValue

ServerIdle ==
    /\ srvPc = "idle"
    /\ srvCapture = NoValue
    /\ srvDecorated = FALSE
    /\ srvRoutes = FALSE
    /\ srvListening = FALSE
    /\ srvListens = 0
    /\ srvHandled = 0
    /\ srvLastReply = NoValue
    /\ srvExit = NoValue

CookiesIdle ==
    /\ cookiesPc = "idle" /\ rawCookies = << >> /\ rawCookiesAtLoad = << >>
    /\ playwrightCookies = << >>

(***************************************************************************)
(* Challenge solver                                                        *)
(***************************************************************************)
Providers == {"Capsolver", "SolveCaptcha"}

\* largest options.maxAttempts explored
MaxAttempts == 3

Tokens == {"tokA", "tokB"}
TaskIds == {"task-1"}
ErrorIds == {1, 2}

\* What the solving service holds for the task: the abstract task states of
\* ChallengeTaskResult, plus the service being unreachable for one call.
TaskStates ==
    {[kind |-> "pending", token |-> NoValue, errorId |-> 0],
     [kind |-> "unreachable", token |-> NoValue, errorId |-> 0]}
    \cup {[kind |-> "success", token |-> t, errorId |-> 0] : t \in Tokens}
    \cup {[kind |-> "error", token |-> NoValue, errorId |-> e] : e \in ErrorIds}

CreateStates ==
    {[kind |-> "accepted", taskId |-> t, errorId |-> 0] : t \in TaskIds}
    \cup {[kind |-> "rejected", taskId |-> NoValue, errorId |-> e] : e \in ErrorIds}
    \cup {[kind |-> "accepted_without_id", taskId |-> NoValue, errorId |-> 0],
          [kind |-> "unreachable", taskId |-> NoValue, errorId |-> 0]}

NoSolution == [gRecaptchaResponse |-> NoValue, userAgent |-> NoValue]

\* A createTask / getTaskResult call that throws (the request failed).
ThrownCreate ==
    [threw |-> TRUE, errorId |-> 0, taskId |-> NoValue,
     errorCode |-> NoValue, errorDescription |-> NoValue]

\* createResponse before createTask has returned.
NoCreateResponse ==
    [threw |-> FALSE, errorId |-> 0, taskId |-> NoValue,
     errorCode |-> NoValue, errorDescription |-> NoValue]

ThrownResult ==
    [threw |-> TRUE, errorId |-> 0, status |-> NoValue, solution |-> NoSolution,
     errorCode |-> NoValue, errorDescription |-> NoValue]

\* The response bodies the Capsolver service sends for a task state
\* (CapsolverResponseSchema: errorId, errorCode?, errorDescription?, status,
\* solution?).
CapsolverResultBody(ts) ==
    CASE ts.kind = "pending" ->
            {[errorId |-> 0, status |-> "processing", solution |-> NoSolution,
              errorCode |-> NoValue, errorDescription |-> NoValue],
             [errorId |-> 0, status |-> "idle", solution |-> NoSolution,
              errorCode |-> NoValue, errorDescription |-> NoValue],
             [errorId |-> 0, status |-> "ready", solution |-> NoSolution,
              errorCode |-> NoValue, errorDescription |-> NoValue],
             [errorId |-> 1, status |-> "processing", solution |-> NoSolution,
              errorCode |-> "ERROR_RATE_LIMIT", errorDescription |-> NoValue]}
      [] ts.kind = "success" ->
            {[errorId |-> 0, status |-> "ready",
              solution |-> [gRecaptchaResponse |-> ts.token, userAgent |-> "ua"],
              errorCode |-> NoValue, errorDescription |-> NoValue]}
      [] ts.kind = "error" ->
            {[errorId |-> ts.errorId, status |-> "ready", solution |-> NoSolution,
              errorCode |-> "ERROR_CAPTCHA_UNSOLVABLE", errorDescription |-> d]
                : d \in {NoValue, "unsolvable"}}
      [] OTHER -> {}

\* The response bodies the SolveCaptcha service sends for a task state
\* (SolveCaptchaResultResponseSchema: status, request).
SolveCaptchaResultBody(ts) ==
    CASE ts.kind = "pending" -> {[status |-> 0, request |-> "CAPCHA_NOT_READY"]}
      [] ts.kind = "success" -> {[status |-> 1, request |-> ts.token]}
      [] ts.kind = "error" -> {[status |-> 0, request |-> "ERROR_CAPTCHA_UNSOLVABLE"]}
      [] OTHER -> {}

CapsolverCreateBody(cs) ==
    CASE cs.kind = "accepted" ->
            {[errorId |-> 0, taskId |-> cs.taskId,
              errorCode |-> NoValue, errorDescription |-> NoValue]}
      [] cs.kind = "rejected" ->
            {[errorId |-> cs.errorId, taskId |-> NoValue,
              errorCode |-> c, errorDescription |-> d]
                : c \in {NoValue, "ERROR_KEY_DENIED_ACCESS"},
                  d \in {NoValue, "bad key"}}
      [] cs.kind = "accepted_without_id" ->
            {[errorId |-> 0, taskId |-> NoValue,
              errorCode |-> NoValue, errorDescription |-> NoValue]}
      [] OTHER -> {}

SolveCaptchaCreateBody(cs) ==
    CASE cs.kind = "accepted" -> {[status |-> 1, request |-> cs.taskId]}
      [] cs.kind = "rejected" -> {[status |-> 0, request |-> "ERROR_WRONG_USER_KEY"]}
      [] cs.kind = "accepted_without_id" -> {[status |-> 1, request |-> ""]}
      [] OTHER -> {}

\* CapsolverProvider.createTask on a parsed response body.
CapsolverCreateTask(parsed) ==
    [threw |-> FALSE, errorId |-> parsed.errorId, taskId |-> parsed.taskId,
     errorCode |-> parsed.errorCode, errorDescription |-> parsed.errorDescription]

\* SolveCaptchaProvider.createTask on a parsed response body.
SolveCaptchaCreateTask(parsed) ==
    IF parsed.status = 1
    THEN [threw |-> FALSE, errorId |-> 0, taskId |-> parsed.request,
          errorCode |-> NoValue, errorDescription |-> NoValue]
    ELSE [threw |-> FALSE, errorId |-> 1, taskId |-> NoValue,
          errorCode |-> "SOLVECAPTCHA_ERROR", errorDescription |-> parsed.request]

\* CapsolverProvider.getTaskResult on a parsed response body.
CapsolverGetTaskResult(parsed) ==
    [threw |-> FALSE, errorId |-> parsed.errorId, status |-> parsed.status,
     solution |-> parsed.solution,
     errorCode |-> parsed.errorCode, errorDescription |-> parsed.errorDescription]

\* SolveCaptchaProvider.getTaskResult on a parsed response body.
SolveCaptchaGetTaskResult(parsed) ==
    IF parsed.status = 1
    THEN [threw |-> FALSE, errorId |-> 0, status |-> "ready",
          solution |-> [gRecaptchaResponse |-> parsed.request, userAgent |-> NoValue],
          errorCode |-> NoValue, errorDescription |-> NoValue]
    ELSE IF parsed.request = "CAPCHA_NOT_READY"
         THEN [threw |-> FALSE, errorId |-> 0, status |-> "processing", solution |-> NoSolution,
               errorCode |-> NoValue, errorDescription |-> NoValue]
         ELSE [threw |-> FALSE, errorId |-> 1, status |-> "ready", solution |-> NoSolution,
               errorCode |-> "SOLVECAPTCHA_ERROR",
               errorDescription |-> parsed.request]

\* The outcomes of provider p's createTask call when the service is in cs:
\* a CreateTaskResponse, or Thrown when the request fails.
CreateTaskOutcomes(p, cs) ==
    IF cs.kind = "unreachable" THEN {ThrownCreate}
    ELSE IF p = "Capsolver"
         THEN {CapsolverCreateTask(b) : b \in CapsolverCreateBody(cs)}
         ELSE {SolveCaptchaCreateTask(b) : b \in SolveCaptchaCreateBody(cs)}

\* The outcomes of provider p's getTaskResult call when the task is in ts.
\* (mutant) getTaskResult's catch swallows a failed request and reports the
\* task as still pending.
GetTaskResultOutcomesSwallowed(p, ts) ==
    LET answered == IF ts.kind = "unreachable"
                    THEN [kind |-> "pending", token |-> NoValue, errorId |-> 0]
                    ELSE ts
    IN  IF p = "Capsolver"
        THEN {CapsolverGetTaskResult(b) : b \in CapsolverResultBody(answered)}
        ELSE {SolveCaptchaGetTaskResult(b) : b \in SolveCaptchaResultBody(answered)}

GetTaskResultOutcomes(p, ts) ==
    IF ts.kind = "unreachable" THEN {ThrownResult}
    ELSE IF p = "Capsolver"
         THEN {CapsolverGetTaskResult(b) : b \in CapsolverResultBody(ts)}
         ELSE {SolveCaptchaGetTaskResult(b) : b \in SolveCaptchaResultBody(ts)}

\* `a || b || "Unknown error"' of the error messages (an empty string is falsy).
ErrorDetail(r) ==
    IF r.errorDescription \notin {NoValue, ""} THEN r.errorDescription
    ELSE IF r.errorCode \notin {NoValue, ""} THEN r.errorCode
    ELSE "Unknown error"

NoOutcome ==
    [kind |-> "none", solution |-> NoSolution, error |-> NoValue,
     taskId |-> NoValue, attempts |-> -1, detail |-> NoValue]

Resolved(sol) ==
    [kind |-> "resolved", solution |-> sol, error |-> NoValue,
     taskId |-> NoValue, attempts |-> -1, detail |-> NoValue]

Rejected(err, tid, n, d) ==
    [kind |-> "rejected", solution |-> NoSolution, error |-> err,
     taskId |-> tid, attempts |-> n, detail |-> d]

\* (mutant) only errorId 1 is taken for a rejected creation.
CreateVerdictOnlyOne(cr) ==
    IF cr.errorId = 1 THEN "create_failed"
    ELSE IF cr.taskId \in {NoValue, ""} THEN "no_task_id"
    ELSE "poll"

\* The check of the created task: errorId !== 0 throws, then !taskId throws.
CreateVerdict(cr) ==
    IF cr.errorId # 0 THEN "create_failed"
    ELSE IF cr.taskId \in {NoValue, ""} THEN "no_task_id"
    ELSE "poll"

\* (mutant) a ready result with a solution is logged but not returned.
PollVerdictNoReturn(result) ==
    IF result.status = "ready" /\ result.errorId = 1 THEN "throw" ELSE "continue"

\* The body of the polling loop on one result: throw, return or go on.
PollVerdict(result) ==
    IF result.status = "ready"
    THEN IF result.errorId = 1 THEN "throw"
         ELSE IF result.errorId = 0 /\ result.solution # NoSolution THEN "return"
         ELSE "continue"
    ELSE "continue"

\* (mutant) the loop makes one poll too many.
LoopGuardInclusive(a, m) == a <= m

\* The loop condition `attempts < maxAttempts'.
LoopGuard(a, m) == a < m

InitSolver ==
    /\ svcCreate \in CreateStates
    /\ svcPolls = <<>>
    /\ maxAttempts \in 0..MaxAttempts
    /\ spc = [p \in Providers |-> "start"]
    /\ createResponse = [p \in Providers |-> NoCreateResponse]
    /\ attempts = [p \in Providers |-> 0]
    /\ createCalls = [p \in Providers |-> 0]
    /\ getCalls = [p \in Providers |-> 0]
    /\ results = [p \in Providers |-> <<>>]
    /\ outcome = [p \in Providers |-> NoOutcome]

\* Step 1 of solveCaptcha: createTask and the checks of its response.
CreateTask(p) ==
    /\ spc[p] = "start"
    /\ createCalls' = [createCalls EXCEPT ![p] = @ + 1]
    /\ \E cr \in CreateTaskOutcomes(p, svcCreate) :
          IF cr.threw
          THEN /\ spc' = [spc EXCEPT ![p] = "done"]
               /\ outcome' = [outcome EXCEPT ![p] =
                               Rejected("create_threw", NoValue, -1, NoValue)]
               /\ UNCHANGED createResponse
          ELSE /\ createResponse' = [createResponse EXCEPT ![p] = cr]
               /\ CASE CreateVerdict(cr) = "create_failed" ->
                         /\ spc' = [spc EXCEPT ![p] = "done"]
                         /\ outcome' = [outcome EXCEPT ![p] =
                              Rejected("create_failed", NoValue, -1, ErrorDetail(cr))]
                    [] CreateVerdict(cr) = "no_task_id" ->
                         /\ spc' = [spc EXCEPT ![p] = "done"]
                         /\ outcome' = [outcome EXCEPT ![p] =
                              Rejected("no_task_id", NoValue, -1, NoValue)]
                    [] OTHER ->
                         /\ spc' = [spc EXCEPT ![p] = "loop"]
                         /\ UNCHANGED outcome
    /\ UNCHANGED <<svcCreate, svcPolls, maxAttempts, attempts, getCalls, results>>
    /\ UNCHANGED notSolverVars

\* One pass of the while loop: getTaskResult, the checks of its result,
\* attempts++ (the sleep that follows changes no state).
Poll(p) ==
    /\ spc[p] = "loop"
    /\ LoopGuard(attempts[p], maxAttempts)
    /\ getCalls' = [getCalls EXCEPT ![p] = @ + 1]
    /\ \E ts \in TaskStates :
          /\ IF getCalls[p] < Len(svcPolls)
             THEN ts = svcPolls[getCalls[p] + 1] /\ UNCHANGED svcPolls
             ELSE svcPolls' = Append(svcPolls, ts)
          /\ \E result \in GetTaskResultOutcomes(p, ts) :
                IF result.threw
                THEN /\ spc' = [spc EXCEPT ![p] = "done"]
                     /\ outcome' = [outcome EXCEPT ![p] =
                          Rejected("poll_threw", createResponse[p].taskId,
                                   -1, NoValue)]
                     /\ UNCHANGED <<results, attempts>>
                ELSE /\ results' = [results EXCEPT ![p] = Append(@, result)]
                     /\ CASE PollVerdict(result) = "throw" ->
                               /\ spc' = [spc EXCEPT ![p] = "done"]
                               /\ outcome' = [outcome EXCEPT ![p] =
                                    Rejected("task_failed", createResponse[p].taskId,
                                             -1, ErrorDetail(result))]
                               /\ UNCHANGED attempts
                          [] PollVerdict(result) = "return" ->
                               /\ spc' = [spc EXCEPT ![p] = "done"]
                               /\ outcome' = [outcome EXCEPT ![p] =
                                    Resolved(result.solution)]
                               /\ UNCHANGED attempts
                          [] OTHER ->
                               /\ attempts' = [attempts EXCEPT ![p] = @ + 1]
                               /\ UNCHANGED <<spc, outcome>>
    /\ UNCHANGED <<svcCreate, maxAttempts, createResponse, createCalls>>
    /\ UNCHANGED notSolverVars

\* The loop ends without a result: the timeout error after the loop.
TimedOut(p) ==
    /\ spc[p] = "loop"
    /\ ~LoopGuard(attempts[p], maxAttempts)
    /\ spc' = [spc EXCEPT ![p] = "done"]
    /\ outcome' = [outcome EXCEPT ![p] =
          Rejected("timeout", createResponse[p].taskId, maxAttempts, NoValue)]
    /\ UNCHANGED <<svcCreate, svcPolls, maxAttempts, createResponse, attempts,
                   createCalls, getCalls, results>>
    /\ UNCHANGED notSolverVars

NextSolver ==
    \E p \in Providers : CreateTask(p) \/ Poll(p) \/ TimedOut(p)

InitSolverOnly ==
    InitSolver /\ PollerIdle /\ FlowIdle /\ CaptureIdle /\ SessionIdle /\ CookiesIdle
    /\ ServerIdle
    /\ ClickIdle
    /\ BodyIdle
    /\ ConfigIdle
    /\ BannerIdle
    /\ InjectIdle
    /\ CallbackIdle
    /\ StampIdle

SpecSolver == InitSolverOnly /\ [][NextSolver]_vars

\* Every createTask / getTaskResult request settles (the HTTP client has a
\* 30 s timeout), so a solveCaptcha call that can take a step takes it.
SpecSolverFair == SpecSolver /\ WF_vars(NextSolver)

(***************************************************************************)
(* Properties of the challenge solver                                      *)
(***************************************************************************)
IsReadySuccess(r) ==
    r.status = "ready" /\ r.errorId = 0 /\ r.solution # NoSolution

IsReadyError(r) == r.status = "ready" /\ r.errorId # 0

IsTerminal(r) == IsReadySuccess(r) \/ IsReadyError(r)

AllNonTerminal(p, n) == \A j \in 1..n : ~IsTerminal(results[p][j])

\* C1: for either provider, when the k-th poll (k <= maxAttempts) is the
\* first to return status 'ready' with errorId 0 and a solution, and every
\* earlier poll was non-terminal, solveCaptcha has returned exactly that
\* solution after exactly one createTask call and exactly k getTaskResult
\* calls.
C1_FirstReadyPollReturnsItsSolution ==
    \A p \in Providers : \A k \in 1..Len(results[p]) :
        ( /\ k <= maxAttempts
          /\ IsReadySuccess(results[p][k])
          /\ AllNonTerminal(p, k - 1) )
        => /\ spc[p] = "done"
           /\ outcome[p] = Resolved(results[p][k].solution)
           /\ createCalls[p] = 1
           /\ getCalls[p] = k

\* Witness of C1: the third poll was the first ready one and its solution
\* was returned.
C1_Witness ==
    \E p \in Providers :
        /\ Len(results[p]) = 3
        /\ IsReadySuccess(results[p][3])
        /\ AllNonTerminal(p, 2)
        /\ outcome[p].kind = "resolved"

\* C2: when createTask returned a non-zero errorId, solveCaptcha has rejected
\* with the task-creation error carrying the service's description (or code),
\* createTask was called exactly once and getTaskResult never.
C2_RejectedCreationFailsFast ==
    \A p \in Providers :
        (createCalls[p] > 0 /\ ~createResponse[p].threw
            /\ createResponse[p].errorId # 0)
        => /\ spc[p] = "done"
           /\ outcome[p].kind = "rejected"
           /\ outcome[p].error = "create_failed"
           /\ outcome[p].detail \notin {NoValue, ""}
           /\ (createResponse[p].errorDescription \notin {NoValue, ""}
                 => outcome[p].detail = createResponse[p].errorDescription)
           /\ createCalls[p] = 1
           /\ getCalls[p] = 0
           /\ results[p] = <<>>

\* Witness of C2: a creation rejected with an error id other than 1.
C2_Witness ==
    \E p \in Providers :
        /\ createCalls[p] = 1
        /\ createResponse[p].errorId = 2
        /\ outcome[p].error = "create_failed"

\* C3: on any poll whose result is 'ready' with a non-zero error id
\* solveCaptcha rejects on that poll and polls no more; on a poll whose result
\* is 'ready' with errorId 0 and a solution it returns that solution.
C3_TerminalPollSettlesTheCall ==
    \A p \in Providers : \A k \in 1..Len(results[p]) :
        /\ IsReadyError(results[p][k])
             => /\ spc[p] = "done"
                /\ outcome[p].kind = "rejected"
                /\ outcome[p].error = "task_failed"
                /\ getCalls[p] = k
        /\ IsReadySuccess(results[p][k])
             => /\ spc[p] = "done"
                /\ outcome[p] = Resolved(results[p][k].solution)
                /\ getCalls[p] = k

SolverDone == \A p \in Providers : spc[p] = "done"

C4_Bounded ==
    \A p \in Providers :
        /\ getCalls[p] <= maxAttempts
        /\ (maxAttempts = 0 => getCalls[p] = 0)
        /\ ( /\ spc[p] = "done"
              /\ CreateVerdict(createResponse[p]) = "poll"
              /\ Len(results[p]) = getCalls[p]
              /\ AllNonTerminal(p, Len(results[p])) )
            => /\ getCalls[p] = maxAttempts
               /\ outcome[p] =
                    Rejected("timeout", createResponse[p].taskId, maxAttempts, NoValue)
               /\ outcome[p].taskId \in TaskIds

\* C4: solveCaptcha never makes more than maxAttempts polls (none when
\* maxAttempts = 0); when every poll returned a non-terminal result it made
\* exactly maxAttempts polls and rejected with the timeout error naming the
\* task id and the attempt count; and every call terminates.
C4_ExhaustedAttemptsTimeOut == []C4_Bounded /\ <>SolverDone

\* Witness of C4: a call that timed out after MaxAttempts pending polls.
C4_Witness ==
    \E p \in Providers :
        /\ maxAttempts = MaxAttempts
        /\ getCalls[p] = MaxAttempts
        /\ AllNonTerminal(p, Len(results[p]))
        /\ outcome[p].error = "timeout"

\* C5: driven by the same task states and the same maxAttempts, the two
\* providers end in the same outcome (the same solution token, or the same
\* kind of error) after the same number of createTask and getTaskResult
\* calls.
C5_ProvidersAgree ==
    SolverDone =>
        \A p, q \in Providers :
            /\ outcome[p].kind = outcome[q].kind
            /\ outcome[p].error = outcome[q].error
            /\ outcome[p].solution.gRecaptchaResponse
                 = outcome[q].solution.gRecaptchaResponse
            /\ createCalls[p] = createCalls[q]
            /\ getCalls[p] = getCalls[q]


(***************************************************************************)
(* Inbox poller: pollForSlackCode, extractCodeFromMessage, getEmailBody    *)
(***************************************************************************)
\* largest number of messages in one messages.list response explored
MaxListed == 2

pollIntervalMs == 5000

\* maxWaitMinutes values explored, in thousandths of a minute: 0, 0.1 and
\* 0.125 minutes.
MaxWaitChoices == {0, 100, 125}

\* maxWaitMinutes_ms = maxWaitMinutes * 60 * 1000 (maxWaitMinutes is held in
\* thousandths of a minute: 60 ms each).
maxWaitMinutes_ms == maxWaitMinutes * 60

\* How long an awaited Gmail request takes, and by how much a timer overruns.
Latencies == {0, 1000}
TimerOverrun == {0, 500}

NotBeforeChoices == {1000}

\* ---- character codes (ASCII) ----
Hyphen == 45

\* (mutant) lower-case letters are taken for code characters too.
IsCodeCharAnyCase(c) ==
    (c >= 65 /\ c <= 90) \/ (c >= 48 /\ c <= 57) \/ (c >= 97 /\ c <= 122)

\* The character class [A-Z0-9].
IsCodeChar(c) == (c >= 65 /\ c <= 90) \/ (c >= 48 /\ c <= 57)

\* ---- base64 ----
\* A base64 text is held as the sequence of its 6-bit digits (0..63), without
\* padding. Buffer.from(data, "base64"): four digits make three bytes, a tail
\* of three makes two, a tail of two makes one, a tail of one is dropped.
RECURSIVE Base64Decode(_)
Base64Decode(d) ==
    IF Len(d) >= 4
    THEN << d[1] * 4 + d[2] \div 16,
            (d[2] % 16) * 16 + d[3] \div 4,
            (d[3] % 4) * 64 + d[4] >> \o Base64Decode(SubSeq(d, 5, Len(d)))
    ELSE IF Len(d) = 3
    THEN << d[1] * 4 + d[2] \div 16, (d[2] % 16) * 16 + d[3] \div 4 >>
    ELSE IF Len(d) = 2
    THEN << d[1] * 4 + d[2] \div 16 >>
    ELSE << >>

\* What the mail service sends for a text: its bytes in base64.
RECURSIVE Base64Encode(_)
Base64Encode(b) ==
    IF Len(b) >= 3
    THEN << b[1] \div 4,
            (b[1] % 4) * 16 + b[2] \div 16,
            (b[2] % 16) * 4 + b[3] \div 64,
            b[3] % 64 >> \o Base64Encode(SubSeq(b, 4, Len(b)))
    ELSE IF Len(b) = 2
    THEN << b[1] \div 4, (b[1] % 4) * 16 + b[2] \div 16, (b[2] % 16) * 4 >>
    ELSE IF Len(b) = 1
    THEN << b[1] \div 4, (b[1] % 4) * 16 >>
    ELSE << >>

\* ---- message payloads ----
\* A MessagePart: body.data (base64, empty when absent) and parts.
Part(text, parts) == [data |-> Base64Encode(text), parts |-> parts]

Leaf(text) == Part(text, << >>)

NoPayload == [data |-> << >>, parts |-> << >>]

\* getEmailBody: the decoded text of the payload; the empty text stands for
\* null (the function returns `body || null').
RECURSIVE getEmailBody(_)
RECURSIVE getEmailBodyParts(_, _)
getEmailBodyParts(parts, i) ==
    IF i > Len(parts) THEN << >>
    ELSE (IF parts[i].data # << >>
          THEN Base64Decode(parts[i].data)
          ELSE IF parts[i].parts # << >>
               THEN getEmailBody(parts[i])
               ELSE << >>)
         \o getEmailBodyParts(parts, i + 1)

getEmailBody(payload) ==
    (IF payload.data # << >> THEN Base64Decode(payload.data) ELSE << >>)
    \o getEmailBodyParts(payload.parts, 1)

\* The pattern [A-Z0-9]{3}-[A-Z0-9]{2,3} matches at position i of body.
MatchesAt(body, i) ==
    /\ i >= 1
    /\ i + 5 <= Len(body)
    /\ \A k \in 0..2 : IsCodeChar(body[i + k])
    /\ body[i + 3] = Hyphen
    /\ \A k \in 4..5 : IsCodeChar(body[i + k])

\* body.match(slackCodePattern)[1]: the leftmost match, the {2,3} taken
\* greedily; the empty text stands for null.
MatchCode(body) ==
    LET starts == {i \in 1..Len(body) : MatchesAt(body, i)}
    IN  IF starts = {} THEN << >>
        ELSE LET i == CHOOSE x \in starts : \A y \in starts : x <= y
                 n == IF i + 6 <= Len(body) /\ IsCodeChar(body[i + 6])
                      THEN 7 ELSE 6
             IN  SubSeq(body, i, i + n - 1)

\* extractCodeFromMessage(messageData): null (empty) without a body or a match.
extractCodeFromMessage(messageData) ==
    LET body == getEmailBody(messageData.payload)
    IN  IF body = << >> THEN << >> ELSE MatchCode(body)

\* parseInt of a string of decimal digits (held as the sequence of its
\* digits); NaN for undefined.
RECURSIVE ParseDigits(_)
ParseDigits(ds) ==
    IF ds = << >> THEN 0 ELSE ParseDigits(SubSeq(ds, 1, Len(ds) - 1)) * 10 + ds[Len(ds)]

parseInt(str) == IF str = << >> THEN NaN ELSE ParseDigits(str)

\* (mutant) a message received exactly at the boundary counts as newer.
isAfterOrEqual(date, dateToCompare) ==
    date # NaN /\ dateToCompare # NaN /\ date >= dateToCompare

\* date-fns isAfter: strictly later; false for an invalid date.
isAfter(date, dateToCompare) ==
    date # NaN /\ dateToCompare # NaN /\ date > dateToCompare

\* (mutant) the elapsed time is rounded up to whole seconds.
differenceInSecondsCeil(later, earlier) == (later - earlier + 999) \div 1000

\* date-fns differenceInSeconds: whole seconds, truncated.
differenceInSeconds(later, earlier) == (later - earlier) \div 1000

\* The condition of the while loop.
WithinBudget == differenceInSeconds(now, startTime) * 1000 < maxWaitMinutes_ms

\* ---- the mailbox ----
\* "QGI-T68"
TextCode == <<81, 71, 73, 45, 84, 54, 56>>
\* "Code: RY3-QA."
TextShortCode == <<67, 111, 100, 101, 58, 32, 82, 89, 51, 45, 81, 65, 46>>
\* "no code here"
TextNoCode == <<110, 111, 32, 99, 111, 100, 101, 32, 104, 101, 114, 101>>
\* "ABCD-EFGH"
TextLongCode == <<65, 66, 67, 68, 45, 69, 70, 71, 72>>
\* "Your code " and "is X1Y-2Z3"
TextIntro == <<89, 111, 117, 114, 32, 99, 111, 100, 101, 32>>
TextNested == <<105, 115, 32, 88, 49, 89, 45, 50, 90, 51>>
\* "abc-def"
TextLowerCase == <<97, 98, 99, 45, 100, 101, 102>>

\* The messages the search can list, as messages.get returns them.
Mailbox ==
    [stale    |-> [internalDate |-> <<9, 9, 9>>, payload |-> Leaf(TextCode)],
     boundary |-> [internalDate |-> <<1, 0, 0, 0>>, payload |-> Leaf(TextShortCode)],
     undated  |-> [internalDate |-> << >>, payload |-> Leaf(TextCode)],
     fresh    |-> [internalDate |-> <<1, 0, 0, 1>>, payload |-> Leaf(TextShortCode)],
     freshLong |-> [internalDate |-> <<2, 0, 0, 0>>,
                    payload |-> Part(<< >>, <<Leaf(TextIntro), Leaf(TextLongCode)>>)],
     freshNested |-> [internalDate |-> <<1, 5, 0, 0>>,
                      payload |-> Part(<< >>,
                          <<Part(<< >>, <<Leaf(TextIntro), Leaf(TextNested)>>)>>)],
     freshNoCode |-> [internalDate |-> <<1, 0, 0, 1>>,
                      payload |-> Part(TextNoCode, <<Leaf(TextLowerCase)>>)],
     freshEmpty |-> [internalDate |-> <<3, 0, 0, 0>>, payload |-> NoPayload]]

MessageIds == DOMAIN Mailbox

\* A listed message: its id, or no id.
ListedIds == MessageIds \cup {NoValue}

\* response.data.messages holds at most MaxListed messages (undefined counts
\* as the empty list).
ListLengths == 0..MaxListed

NoPollOutcome == [kind |-> "none", code |-> << >>, source |-> NoValue, error |-> NoValue]

NothingFetched == [id |-> NoValue, decision |-> "none", code |-> << >>]

InitPoller ==
    /\ now = 0
    /\ startTime = 0
    /\ searchAfterTimestamp \in NotBeforeChoices
    /\ maxWaitMinutes \in MaxWaitChoices
    /\ ppc = "loop"
    /\ messages = 0
    /\ msgIdx = 0
    /\ searches = 0
    /\ searchElapsed = 0
    /\ lastFetched = NothingFetched
    /\ inspected = {}
    /\ pollOutcome = NoPollOutcome

\* The while condition holds: a search is started (messages.list is called).
StartSearch ==
    /\ ppc = "loop"
    /\ WithinBudget
    /\ ppc' = "listing"
    /\ searches' = searches + 1
    /\ searchElapsed' = now - startTime
    /\ UNCHANGED <<now, startTime, searchAfterTimestamp, maxWaitMinutes, messages,
                   msgIdx, lastFetched, inspected, pollOutcome>>
    /\ UNCHANGED notPollerVars

\* The while condition fails: the timeout error after the loop.
PollTimeout ==
    /\ ppc = "loop"
    /\ ~WithinBudget
    /\ ppc' = "done"
    /\ pollOutcome' = [NoPollOutcome EXCEPT !.kind = "rejected", !.error = "timeout"]
    /\ UNCHANGED <<now, startTime, searchAfterTimestamp, maxWaitMinutes, messages,
                   msgIdx, searches, searchElapsed, lastFetched, inspected>>
    /\ UNCHANGED notPollerVars

\* messages.list settles: it throws (the catch rethrows), or it lists
\* messages and the for loop over them begins.
ListSettles ==
    /\ ppc = "listing"
    /\ \E d \in Latencies : now' = now + d
    /\ \/ /\ ppc' = "done"
          /\ pollOutcome' = [NoPollOutcome EXCEPT !.kind = "rejected", !.error = "api_error"]
          /\ UNCHANGED <<messages, msgIdx>>
       \/ \E length \in ListLengths :
             /\ messages' = length
             /\ msgIdx' = IF length > 0 THEN 1 ELSE 0
             /\ ppc' = IF length > 0 THEN "iterating" ELSE "sleeping"
             /\ UNCHANGED pollOutcome
    /\ UNCHANGED <<startTime, searchAfterTimestamp, maxWaitMinutes, searches,
                   searchElapsed, lastFetched, inspected>>
    /\ UNCHANGED notPollerVars

\* Where the for loop goes after the message at msgIdx.
AfterMessage == IF msgIdx + 1 > messages THEN "sleeping" ELSE "iterating"

\* The for loop moves on to the next message; after the last one the list
\* and the index are not read again (they are held at 0 from then on).
NextMessage ==
    /\ ppc' = AfterMessage
    /\ IF AfterMessage = "sleeping"
       THEN messages' = 0 /\ msgIdx' = 0
       ELSE msgIdx' = msgIdx + 1 /\ UNCHANGED messages

\* One pass of the for loop: a message without id is passed over; otherwise
\* messages.get is awaited (it may throw, or return no data), the message's
\* internalDate is compared with searchAfterTimestamp and, when it is newer,
\* a code is extracted from it and returned if there is one.
VisitMessage ==
    /\ ppc = "iterating"
    /\ msgIdx <= messages
    /\ \E id \in ListedIds :
       IF id = NoValue
       THEN /\ NextMessage
            /\ lastFetched' = [id |-> id, decision |-> "no_id", code |-> << >>]
            /\ UNCHANGED <<now, inspected, pollOutcome>>
       ELSE /\ \E d \in Latencies : now' = now + d
            /\ \/ /\ ppc' = "done"
                  /\ pollOutcome' = [NoPollOutcome EXCEPT !.kind = "rejected",
                                                         !.error = "api_error"]
                  /\ lastFetched' = [id |-> id, decision |-> "threw", code |-> << >>]
                  /\ UNCHANGED <<messages, msgIdx, inspected>>
               \/ /\ NextMessage
                  /\ lastFetched' = [id |-> id, decision |-> "no_data", code |-> << >>]
                  /\ UNCHANGED <<inspected, pollOutcome>>
               \/ LET data == Mailbox[id]
                      emailTimestamp == parseInt(data.internalDate)
                  IN  IF isAfter(emailTimestamp, searchAfterTimestamp)
                      THEN LET code == extractCodeFromMessage(data) IN
                           /\ inspected' = inspected \cup {id}
                           /\ lastFetched' = [id |-> id, decision |-> "inspected",
                                              code |-> code]
                           /\ IF code # << >>
                              THEN /\ ppc' = "done"
                                   /\ pollOutcome' = [kind |-> "resolved", code |-> code,
                                                      source |-> id, error |-> NoValue]
                                   /\ UNCHANGED <<messages, msgIdx>>
                              ELSE /\ NextMessage
                                   /\ UNCHANGED pollOutcome
                      ELSE /\ lastFetched' = [id |-> id, decision |-> "skipped",
                                              code |-> << >>]
                           /\ NextMessage
                           /\ UNCHANGED <<inspected, pollOutcome>>
    /\ UNCHANGED <<startTime, searchAfterTimestamp, maxWaitMinutes,
                   searches, searchElapsed>>
    /\ UNCHANGED notPollerVars

\* The wait before the next poll: setTimeout(resolve, pollIntervalMs).
Sleep ==
    /\ ppc = "sleeping"
    /\ \E d \in TimerOverrun : now' = now + pollIntervalMs + d
    /\ ppc' = "loop"
    /\ UNCHANGED <<startTime, searchAfterTimestamp, maxWaitMinutes, messages,
                   msgIdx, searches, searchElapsed, lastFetched, inspected,
                   pollOutcome>>
    /\ UNCHANGED notPollerVars

NextPoller == StartSearch \/ PollTimeout \/ ListSettles \/ VisitMessage \/ Sleep

InitPollerOnly ==
    InitPoller /\ SolverIdle /\ FlowIdle /\ CaptureIdle /\ SessionIdle /\ CookiesIdle
    /\ ServerIdle
    /\ ClickIdle
    /\ BodyIdle
    /\ ConfigIdle
    /\ BannerIdle
    /\ InjectIdle
    /\ CallbackIdle
    /\ StampIdle

SpecPoller == InitPollerOnly /\ [][NextPoller]_vars


\* The timer of the wait fires, and every Gmail request settles, so a call
\* that can take a step takes it.
SpecPollerFair == SpecPoller /\ WF_vars(NextPoller)

(***************************************************************************)
(* Properties of the inbox poller                                          *)
(***************************************************************************)
\* When the message was received: its internalDate in ms, NaN if it has none.
ReceivedAt(id) == parseInt(Mailbox[id].internalDate)

\* C6: a code is extracted and returned only from a message whose internalDate
\* is strictly after searchAfterTimestamp; a message received at or before
\* it (or without a date) is never passed to the extraction and is never the
\* source of the returned code.
C6_OnlyNewerMessagesAreInspected ==
    /\ \A id \in inspected : ReceivedAt(id) > searchAfterTimestamp
    /\ \A id \in MessageIds :
          ReceivedAt(id) <= searchAfterTimestamp
          => /\ id \notin inspected
             /\ pollOutcome.source # id
             /\ (lastFetched.id = id => lastFetched.decision # "inspected")
    /\ pollOutcome.kind = "resolved"
          => /\ pollOutcome.source \in inspected
             /\ ReceivedAt(pollOutcome.source) > searchAfterTimestamp

\* Witness of C6: a newer message was passed to the extraction and the message
\* received exactly at searchAfterTimestamp, fetched after it, was skipped.
C6_Witness ==
    /\ "freshNoCode" \in inspected
    /\ lastFetched.id = "boundary"
    /\ lastFetched.decision = "skipped"
    /\ ReceivedAt("boundary") = searchAfterTimestamp

IsUpperCaseOrDigit(c) == c \in 65..90 \/ c \in 48..57

\* c matches ^[A-Z0-9]{3}-[A-Z0-9]{2,3}$ in full.
FullyMatchesCodePattern(c) ==
    /\ Len(c) \in {6, 7}
    /\ \A k \in 1..3 : IsUpperCaseOrDigit(c[k])
    /\ c[4] = 45
    /\ \A k \in 5..Len(c) : IsUpperCaseOrDigit(c[k])

ContainsCodePattern(body) ==
    \E i \in 1..Len(body) : \E n \in {6, 7} :
        i + n - 1 <= Len(body) /\ FullyMatchesCodePattern(SubSeq(body, i, i + n - 1))

C7_ReturnedCodeMatches ==
    /\ lastFetched.code # << >> => FullyMatchesCodePattern(lastFetched.code)
    /\ pollOutcome.kind = "resolved"
          => /\ FullyMatchesCodePattern(pollOutcome.code)
             /\ ContainsCodePattern(getEmailBody(Mailbox[pollOutcome.source].payload))

C7_NoPatternNoCode ==
    ( /\ ppc = "iterating"
      /\ lastFetched'.decision = "inspected"
      /\ ~ContainsCodePattern(getEmailBody(Mailbox[lastFetched'.id].payload)) )
    => /\ lastFetched'.code = << >>
       /\ ppc' \in {"iterating", "sleeping"}
       /\ pollOutcome' = pollOutcome

\* C7: every code the poller extracts or returns matches
\* ^[A-Z0-9]{3}-[A-Z0-9]{2,3}$ in full, and it comes from a message whose
\* decoded body holds the pattern; a newer message whose decoded body holds no
\* such pattern yields no code, and the loop goes on to the next message or to
\* the wait before the next search.
C7_CodesMatchThePattern == []C7_ReturnedCodeMatches /\ [][C7_NoPatternNoCode]_vars

\* Witness of C7: a newer message without the pattern was inspected and a
\* later message's code, embedded in a longer text, was returned.
C7_Witness ==
    /\ "freshNoCode" \in inspected
    /\ pollOutcome.kind = "resolved"
    /\ pollOutcome.source = "freshLong"
    /\ Len(pollOutcome.code) = 7

C8_ThreeWays ==
    /\ ppc = "done"
          => \/ pollOutcome.kind = "resolved" /\ pollOutcome.source \in inspected
             \/ /\ pollOutcome.kind = "rejected"
                /\ pollOutcome.error = "timeout"
                /\ now - startTime >= maxWaitMinutes_ms
             \/ pollOutcome.kind = "rejected" /\ pollOutcome.error = "api_error"
    /\ searches > 0
          => /\ searchElapsed - (searchElapsed % 1000) < maxWaitMinutes_ms
             /\ searchElapsed < maxWaitMinutes_ms + 1000
             /\ (maxWaitMinutes_ms % 1000 = 0 => searchElapsed < maxWaitMinutes_ms)
    /\ maxWaitMinutes = 0 => searches = 0

MaxTargets == 2

\* Which of the probed selectors a screen holds:
\*   workspaceList     .p-workspaces_list__panel
\*   workspaceLinks    [data-qa="current_workspaces_open_link"]
\*   emailInput        input[aria-label="digit 1 of 6"]
\*   confirmationCode  [data-qa="confirmation_code_input"]
Markers(scr) ==
    CASE scr = "workspaces" ->
           [workspaceList |-> TRUE, workspaceLinks |-> TRUE,
            emailInput |-> FALSE, confirmationCode |-> FALSE]
      [] scr = "verification" ->
           [workspaceList |-> FALSE, workspaceLinks |-> FALSE,
            emailInput |-> TRUE, confirmationCode |-> TRUE]
      [] scr = "confirmationOnly" ->
           [workspaceList |-> FALSE, workspaceLinks |-> FALSE,
            emailInput |-> FALSE, confirmationCode |-> TRUE]
      [] scr = "both" ->
           [workspaceList |-> TRUE, workspaceLinks |-> TRUE,
            emailInput |-> TRUE, confirmationCode |-> TRUE]
      [] scr = "linksOnly" ->
           [workspaceList |-> FALSE, workspaceLinks |-> TRUE,
            emailInput |-> FALSE, confirmationCode |-> FALSE]
      [] OTHER ->
           [workspaceList |-> FALSE, workspaceLinks |-> FALSE,
            emailInput |-> FALSE, confirmationCode |-> FALSE]

\* The screens the submission of the login form can lead to.
LandingScreens ==
    {"workspaces", "verification", "confirmationOnly", "both", "linksOnly", "blank"}

\* What a screen can have become after the second wait of the flow.
LoadsInto(scr) ==
    IF scr = "blank" THEN LandingScreens ELSE {scr}

\* The selectors clickWorkspace tries, in the order it tries them.
Strategies ==
    <<"ariaLabel", "title", "directButton", "genericButton",
      "contextualButton", "roleButton", "qaButton">>

StrategyNames == {Strategies[k] : k \in 1..Len(Strategies)}

TargetChoices == {t \in SUBSET StrategyNames : Cardinality(t) <= MaxTargets}

\* The branch the first probe selects: the workspace page wins over the
\* verification page.
FirstMatchVerificationFirst(m, attempted) ==
    IF m.emailInput \/ m.confirmationCode THEN "verification"
    ELSE IF m.workspaceList /\ m.workspaceLinks /\ ~attempted THEN "workspace"
    ELSE "unclear"

FirstMatch(m, attempted) ==
    IF m.workspaceList /\ m.workspaceLinks /\ ~attempted THEN "workspace"
    ELSE IF m.emailInput \/ m.confirmationCode THEN "verification"
    ELSE "unclear"

\* The branch the second probe selects.
DelayedMatchVerificationFirst(m, attempted) ==
    IF m.emailInput /\ ~attempted THEN "delayed_verification"
    ELSE IF m.workspaceLinks /\ ~attempted THEN "delayed_workspace"
    ELSE IF m.workspaceLinks /\ attempted THEN "skip"
    ELSE "undetected"

DelayedMatch(m, attempted) ==
    IF m.workspaceLinks /\ ~attempted THEN "delayed_workspace"
    ELSE IF m.workspaceLinks /\ attempted THEN "skip"
    ELSE IF m.emailInput /\ ~attempted THEN "delayed_verification"
    ELSE "undetected"

\* workspaceSelectionAttempted after the first probe: set in the workspace
\* branch only, just before clickWorkspace.
AttemptedAfterFirstProbeAlways(b) == TRUE

AttemptedAfterFirstProbe(b) == b = "workspace"

\* The catch block of handleSlackLoginFlow rethrowing another error.
RethrownWrapped(caught) == [caught EXCEPT !.name = "SlackLoginFlowError"]

\* What a click on target s brings about: the working target changes the URL
\* or shows one of the four indicators, any other click changes nothing.
ClickEffects == {"url", "indicator"}

ClickEffect(s, wk, eff) == IF s = wk THEN eff ELSE "none"

\* The race of the URL change and of the four indicators against the 10 s
\* timeouts: true when one of them wins, false (the catch block) when all time
\* out.
verifyWorkspaceClickSucceededAlways(urlChanged, indicatorShown) == TRUE

verifyWorkspaceClickSucceeded(urlChanged, indicatorShown) ==
    urlChanged \/ indicatorShown

\* The click on target s is verified.
ClickVerified(s, wk, eff) ==
    verifyWorkspaceClickSucceeded(ClickEffect(s, wk, eff) = "url",
                                  ClickEffect(s, wk, eff) = "indicator")

\* The first target, from the k-th strategy on, that is on the page and whose
\* click is verified; NoValue when there is none.
RECURSIVE TryStrategies(_, _, _, _)
TryStrategies(k, tg, wk, eff) ==
    IF k > Len(Strategies) THEN NoValue
    ELSE IF Strategies[k] \in tg /\ ClickVerified(Strategies[k], wk, eff)
         THEN Strategies[k]
         ELSE TryStrategies(k + 1, tg, wk, eff)

\* The clicks made from the k-th strategy on, in order, each with the answer of
\* verifyWorkspaceClickSucceeded: a verified click ends the call, after an
\* unverified one the next strategy is tried.
RECURSIVE ClicksFrom(_, _, _, _)
ClicksFrom(k, tg, wk, eff) ==
    IF k > Len(Strategies) THEN << >>
    ELSE IF Strategies[k] \notin tg THEN ClicksFrom(k + 1, tg, wk, eff)
    ELSE IF ClickVerified(Strategies[k], wk, eff)
         THEN <<[via |-> Strategies[k], verified |-> TRUE]>>
         ELSE <<[via |-> Strategies[k], verified |-> FALSE]>>
              \o ClicksFrom(k + 1, tg, wk, eff)

\* One call of clickWorkspace on screen scr.
clickWorkspaceNoThrow(scr, tg, wk, eff) ==
    IF ~Markers(scr).workspaceLinks
    THEN [ok |-> FALSE, via |-> NoValue, error |-> "TimeoutError", log |-> << >>]
    ELSE [ok |-> TRUE, via |-> TryStrategies(1, tg, wk, eff), error |-> NoValue,
          log |-> ClicksFrom(1, tg, wk, eff)]

clickWorkspace(scr, tg, wk, eff) ==
    IF ~Markers(scr).workspaceLinks
    THEN [ok |-> FALSE, via |-> NoValue, error |-> "TimeoutError", log |-> << >>]
    ELSE LET via == TryStrategies(1, tg, wk, eff) IN
         IF via # NoValue
         THEN [ok |-> TRUE, via |-> via, error |-> NoValue,
               log |-> ClicksFrom(1, tg, wk, eff)]
         ELSE [ok |-> FALSE, via |-> NoValue, error |-> "WorkspaceClickFailed",
               log |-> ClicksFrom(1, tg, wk, eff)]

\* The codes pollForSlackCode can return.
PollerCodes == {extractCodeFromMessage(Mailbox[id]) : id \in MessageIds} \ {<< >>}

\* How a call of getSlackVerificationCode can settle.
GetCodeOutcomes ==
    {[threw |-> FALSE, code |-> c, error |-> NoValue] : c \in PollerCodes}
    \cup {[threw |-> TRUE, code |-> << >>, error |-> e] :
            e \in {"MissingGmailSettings", "GmailApiError", "Timeout"}}

\* str.replace(ch, ""): the first occurrence of ch is removed.
ReplaceFirst(str, ch) ==
    IF \E i \in 1..Len(str) : str[i] = ch
    THEN LET i == CHOOSE i \in 1..Len(str) :
                      str[i] = ch /\ \A j \in 1..(i - 1) : str[j] # ch
         IN  SubSeq(str, 1, i - 1) \o SubSeq(str, i + 1, Len(str))
    ELSE str

\* page.waitForSelector(selector, { timeout }): resolves when an element
\* matching the selector is there within the timeout, rejects otherwise.
waitForSelectorNoTimeout(present) == "resolved"

waitForSelector(present) == IF present THEN "resolved" ELSE "TimeoutError"

\* page.url() and page.title() of a screen.
PageUrl(scr) == <<"url of", scr>>
PageTitle(scr) == <<"title of", scr>>

NoError == [name |-> NoValue, url |-> << >>, title |-> << >>]

\* The Error objects of the flow: none of their messages is built from the
\* URL or the title of the page.
ErrorOf(err) == [name |-> err, url |-> << >>, title |-> << >>]

\* The catch block of handleSlackLoginFlow: it logs page.url() and
\* page.title() and throws the error it caught.
Rethrown(caught) == caught

InitFlow ==
    /\ fpc = "submit"
    /\ page = "login"
    /\ targets = {}
    /\ working = NoValue
    /\ workspaceSelectionAttempted = FALSE
    /\ firstProbe = NoValue
    /\ branch = "none"
    /\ pollerCalls = 0
    /\ clickCalls = 0
    /\ verifiedClicks = 0
    /\ clickedVia = NoValue
    /\ receivedCode = << >>
    /\ enteredCode = << >>
    /\ flowOutcome = "not_called"
    /\ runOutcome = "running"
    /\ error = NoValue
    /\ effect = NoValue
    /\ clickLog = << >>
    /\ clickResult = "none"
    /\ probes = 0
    /\ secondProbe = NoValue
    /\ thrown = NoError

\* handleSlackLoginFlow rejects: its catch block rethrows, and the driver
\* script, which awaits it at top level, ends with the error.
FlowRejects(err) ==
    /\ flowOutcome' = "rejected"
    /\ thrown' = Rethrown(ErrorOf(err))
    /\ runOutcome' = "rejected"
    /\ error' = err
    /\ fpc' = "done"

\* The driver submits the login form and calls handleSlackLoginFlow.
SubmitLogin ==
    /\ fpc = "submit"
    /\ page' \in LandingScreens
    /\ targets' \in TargetChoices
    /\ working' \in targets' \cup {NoValue}
    /\ effect' \in ClickEffects
    /\ flowOutcome' = "pending"
    /\ UNCHANGED thrown
    /\ fpc' = "probe"
    /\ UNCHANGED <<workspaceSelectionAttempted, firstProbe, branch, pollerCalls,
                   clickCalls, verifiedClicks, clickedVia, receivedCode,
                   enteredCode, runOutcome, error, clickLog, clickResult>>
    /\ UNCHANGED <<probes, secondProbe>>
    /\ UNCHANGED notFlowVars

\* handleSlackLoginFlow up to the branch its first probe selects.
HandleSlackLoginFlow ==
    /\ fpc = "probe"
    /\ firstProbe' = page
    /\ LET b == FirstMatch(Markers(page), workspaceSelectionAttempted) IN
       /\ branch' = b
       /\ workspaceSelectionAttempted' = AttemptedAfterFirstProbe(b)
       /\ fpc' = CASE b = "workspace" -> "click"
                   [] b = "verification" -> "await_code"
                   [] OTHER -> "delayed"
    /\ UNCHANGED <<page, targets, working, pollerCalls, clickCalls,
                   verifiedClicks, clickedVia, receivedCode, enteredCode,
                   flowOutcome, thrown, runOutcome, error>>
    /\ UNCHANGED <<effect, clickLog, clickResult>>
    /\ probes' = probes + 1
    /\ UNCHANGED secondProbe
    /\ UNCHANGED notFlowVars

\* The page was unclear: the flow waits 3 s and probes again.
DelayedProbe ==
    /\ fpc = "delayed"
    /\ \E scr \in LoadsInto(page) :
       /\ page' = scr
       /\ secondProbe' = scr
       /\ LET b == DelayedMatch(Markers(scr), workspaceSelectionAttempted) IN
          CASE b = "delayed_workspace" ->
                 /\ branch' = b
                 /\ workspaceSelectionAttempted' = TRUE
                 /\ fpc' = "click"
                 /\ UNCHANGED <<flowOutcome, thrown, runOutcome, error>>
            [] b = "delayed_verification" ->
                 /\ branch' = b
                 /\ fpc' = "await_code"
                 /\ UNCHANGED <<workspaceSelectionAttempted, flowOutcome, thrown,
                                runOutcome, error>>
            [] b = "skip" ->
                 /\ branch' = b
                 /\ flowOutcome' = "resolved"
                 /\ UNCHANGED thrown
                 /\ fpc' = "driver_click"
                 /\ UNCHANGED <<workspaceSelectionAttempted, runOutcome, error>>
            [] OTHER ->
                 /\ FlowRejects("UndetectedPage")
                 /\ UNCHANGED <<branch, workspaceSelectionAttempted>>
    /\ UNCHANGED <<targets, working, firstProbe, pollerCalls, clickCalls,
                   verifiedClicks, clickedVia, receivedCode, enteredCode>>
    /\ UNCHANGED <<effect, clickLog, clickResult>>
    /\ probes' = probes + 1
    /\ UNCHANGED notFlowVars

\* waitForVerificationPageAndGetCode: the wait for the first digit input, then
\* the call of getSlackVerificationCode.
WaitForVerificationPageAndGetCode ==
    /\ fpc = "await_code"
    /\ IF ~Markers(page).emailInput
       THEN /\ FlowRejects("TimeoutError")
            /\ UNCHANGED <<pollerCalls, receivedCode>>
       ELSE /\ pollerCalls' = pollerCalls + 1
            /\ \E r \in GetCodeOutcomes :
                  IF r.threw
                  THEN /\ FlowRejects(r.error)
                       /\ UNCHANGED receivedCode
                  ELSE /\ receivedCode' = r.code
                       /\ fpc' = "enter_code"
                       /\ UNCHANGED <<flowOutcome, thrown, runOutcome, error>>
    /\ UNCHANGED <<page, targets, working, workspaceSelectionAttempted,
                   firstProbe, branch, clickCalls, verifiedClicks, clickedVia,
                   enteredCode>>
    /\ UNCHANGED <<effect, clickLog, clickResult>>
    /\ UNCHANGED <<probes, secondProbe>>
    /\ UNCHANGED notFlowVars

\* enterSlackCode, then the wait for the workspace links.
EnterSlackCode ==
    /\ fpc = "enter_code"
    /\ LET cleanCode == ReplaceFirst(receivedCode, Hyphen) IN
       IF Len(cleanCode) # 6
       THEN /\ FlowRejects("InvalidCodeLength")
            /\ UNCHANGED <<page, enteredCode, workspaceSelectionAttempted>>
       ELSE /\ enteredCode' = cleanCode
            /\ page' \in {"workspaces", page}
            /\ IF waitForSelector(Markers(page').workspaceLinks) = "resolved"
               THEN /\ workspaceSelectionAttempted' = TRUE
                    /\ fpc' = "click"
                    /\ UNCHANGED <<flowOutcome, thrown, runOutcome, error>>
               ELSE /\ FlowRejects("TimeoutError")
                    /\ UNCHANGED workspaceSelectionAttempted
    /\ UNCHANGED <<targets, working, firstProbe, branch, pollerCalls, clickCalls,
                   verifiedClicks, clickedVia, receivedCode>>
    /\ UNCHANGED <<effect, clickLog, clickResult>>
    /\ UNCHANGED <<probes, secondProbe>>
    /\ UNCHANGED notFlowVars

\* The call of clickWorkspace that ends handleSlackLoginFlow.
ClickWorkspace ==
    /\ fpc = "click"
    /\ clickCalls' = clickCalls + 1
    /\ LET r == clickWorkspace(page, targets, working, effect) IN
       /\ clickLog' = r.log
       /\ clickResult' = (IF r.ok THEN "resolved" ELSE "rejected")
       /\ IF r.ok
          THEN /\ verifiedClicks' = verifiedClicks + 1
               /\ clickedVia' = r.via
               /\ page' \in {"app", page}
               /\ flowOutcome' = "resolved"
               /\ UNCHANGED thrown
               /\ fpc' = "driver_click"
               /\ UNCHANGED <<runOutcome, error>>
          ELSE /\ FlowRejects(r.error)
               /\ UNCHANGED <<verifiedClicks, clickedVia, page>>
    /\ UNCHANGED <<targets, working, workspaceSelectionAttempted, firstProbe,
                   branch, pollerCalls, receivedCode, enteredCode>>
    /\ UNCHANGED effect
    /\ UNCHANGED <<probes, secondProbe>>
    /\ UNCHANGED notFlowVars

\* handleSlackLoginFlow has resolved: the driver calls clickWorkspace.
DriverClickWorkspace ==
    /\ fpc = "driver_click"
    /\ clickCalls' = clickCalls + 1
    /\ LET r == clickWorkspace(page, targets, working, effect) IN
       /\ clickLog' = r.log
       /\ clickResult' = (IF r.ok THEN "resolved" ELSE "rejected")
       /\ IF r.ok
          THEN /\ verifiedClicks' = verifiedClicks + 1
               /\ clickedVia' = r.via
               /\ page' \in {"app", page}
               /\ fpc' = "finish"
               /\ UNCHANGED <<runOutcome, error>>
          ELSE /\ runOutcome' = "rejected"
               /\ error' = r.error
               /\ fpc' = "done"
               /\ UNCHANGED <<verifiedClicks, clickedVia, page>>
    /\ UNCHANGED <<targets, working, workspaceSelectionAttempted, firstProbe,
                   branch, pollerCalls, receivedCode, enteredCode, flowOutcome, thrown>>
    /\ UNCHANGED effect
    /\ UNCHANGED <<probes, secondProbe>>
    /\ UNCHANGED notFlowVars

\* The last wait and screenshot of the driver script.
DriverFinish ==
    /\ fpc = "finish"
    /\ runOutcome' = "completed"
    /\ fpc' = "done"
    /\ UNCHANGED <<page, targets, working, workspaceSelectionAttempted,
                   firstProbe, branch, pollerCalls, clickCalls, verifiedClicks,
                   clickedVia, receivedCode, enteredCode, flowOutcome, thrown, error>>
    /\ UNCHANGED <<effect, clickLog, clickResult>>
    /\ UNCHANGED <<probes, secondProbe>>
    /\ UNCHANGED notFlowVars

NextFlow ==
    \/ SubmitLogin
    \/ HandleSlackLoginFlow
    \/ DelayedProbe
    \/ WaitForVerificationPageAndGetCode
    \/ EnterSlackCode
    \/ ClickWorkspace
    \/ DriverClickWorkspace
    \/ DriverFinish

InitFlowOnly ==
    InitFlow /\ SolverIdle /\ PollerIdle /\ CaptureIdle /\ SessionIdle /\ CookiesIdle
    /\ ServerIdle
    /\ ClickIdle
    /\ BodyIdle
    /\ ConfigIdle
    /\ BannerIdle
    /\ InjectIdle
    /\ CallbackIdle
    /\ StampIdle

SpecFlow == InitFlowOnly /\ [][NextFlow]_vars

(***************************************************************************)
(* Properties of the login flow                                            *)
(***************************************************************************)
\* C9: when the first probe of handleSlackLoginFlow finds the workspace list
\* and the workspace links, the flow takes the workspace branch and goes to
\* clickWorkspace; getSlackVerificationCode is never invoked in that run and
\* no code is entered, also when the code inputs are on the page.
C9_WorkspaceMarkersSkipThePoller ==
    ( /\ firstProbe # NoValue
      /\ Markers(firstProbe).workspaceList
      /\ Markers(firstProbe).workspaceLinks )
    => /\ branch = "workspace"
       /\ pollerCalls = 0
       /\ receivedCode = << >>
       /\ enteredCode = << >>
       /\ workspaceSelectionAttempted
       /\ (fpc = "click" \/ clickCalls >= 1)

\* Witness of C9: the first probe saw the workspace markers together with the
\* code inputs, and the flow resolved through a verified click.
C9_Witness ==
    /\ firstProbe = "both"
    /\ flowOutcome = "resolved"
    /\ verifiedClicks = 1
    /\ pollerCalls = 0

\* C10: once a workspace click has been verified, clickWorkspace is not
\* invoked a second time in the run, and the run completes without error.
C10_NoSecondSelectionAfterVerifiedClick ==
    verifiedClicks >= 1
    => /\ clickCalls <= 1
       /\ (fpc = "done" => runOutcome = "completed")


\* The place of a strategy in the order clickWorkspace tries them.
StrategyIndex(st) == CHOOSE k \in 1..Len(Strategies) : Strategies[k] = st

\* C11: a call of clickWorkspace resolves only when its last click was
\* answered true by verifyWorkspaceClickSucceeded (and that click did open the
\* workspace); a call in which no click was verified, or in which no strategy
\* found a control to click, rejects.
C11_ResolvesOnlyOnVerifiedClick ==
    /\ clickResult = "resolved"
          => /\ clickLog # << >>
             /\ clickLog[Len(clickLog)].verified
             /\ clickLog[Len(clickLog)].via = working
             /\ clickedVia = working
             /\ verifiedClicks >= 1
    /\ (clickResult # "none" /\ \A k \in 1..Len(clickLog) : ~clickLog[k].verified)
          => /\ clickResult = "rejected"
             /\ error \in {"WorkspaceClickFailed", "TimeoutError"}
             /\ runOutcome = "rejected"

\* Witness of C11: two strategies found a control, neither click was verified,
\* and the call rejected.
C11_Witness ==
    /\ Len(clickLog) = 2
    /\ ~clickLog[1].verified /\ ~clickLog[2].verified
    /\ clickResult = "rejected"
    /\ error = "WorkspaceClickFailed"

TokenHashLength == 64

NoToken == << >>

IsDigit(c) == c \in 48..57

\* [0-9a-z]
IsTokenHashChar(c) == IsDigit(c) \/ c \in 97..122

\* The text starts with lit at index i.
StartsWithAt(str, i, lit) ==
    /\ i >= 1
    /\ i + Len(lit) - 1 <= Len(str)
    /\ SubSeq(str, i, i + Len(lit) - 1) = lit

\* String.prototype.includes
Includes(str, lit) == \E i \in 1..Len(str) : StartsWithAt(str, i, lit)

\* The length of the run of digits that starts at index i.
DigitRun(str, i) ==
    CHOOSE n \in 0..(Len(str) - i + 1) :
        /\ \A k \in i..(i + n - 1) : IsDigit(str[k])
        /\ (i + n > Len(str) \/ ~IsDigit(str[i + n]))

\* [0-9]+- at index i: the index after the hyphen, 0 when there is no match.
DigitsThenHyphen(str, i) ==
    LET n == DigitRun(str, i) IN
    IF i >= 1 /\ n > 0 /\ i + n <= Len(str) /\ str[i + n] = Hyphen THEN i + n + 1 ELSE 0

\* XOXC_TOKEN_REGEX at index i: the index of the last character of the match,
\* 0 when there is no match at i.
XoxcMatchEnd(str, i) ==
    IF ~StartsWithAt(str, i, <<120, 111, 120, 99, 45>>) THEN 0
    ELSE LET a == DigitsThenHyphen(str, i + 5)
             b == IF a = 0 THEN 0 ELSE DigitsThenHyphen(str, a)
             c == IF b = 0 THEN 0 ELSE DigitsThenHyphen(str, b)
         IN  IF /\ c # 0
                /\ c + TokenHashLength - 1 <= Len(str)
                /\ \A k \in c..(c + TokenHashLength - 1) : IsTokenHashChar(str[k])
             THEN c + TokenHashLength - 1
             ELSE 0

\* XOXC_TOKEN_REGEX.test(str): the pattern is not anchored.
XoxcTest(str) == \E i \in 1..Len(str) : XoxcMatchEnd(str, i) # 0

\* str.match(XOXC_TOKEN_REGEX)[0]: the leftmost match.
XoxcMatch(str) ==
    LET i == CHOOSE i \in 1..Len(str) :
                 /\ XoxcMatchEnd(str, i) # 0
                 /\ \A j \in 1..(i - 1) : XoxcMatchEnd(str, j) = 0
    IN  SubSeq(str, i, XoxcMatchEnd(str, i))

\* The value of a hexadecimal digit, -1 for any other character.
HexValue(c) ==
    IF c \in 48..57 THEN c - 48
    ELSE IF c \in 65..70 THEN c - 55
    ELSE IF c \in 97..102 THEN c - 87
    ELSE -1

\* The decoding URLSearchParams applies to names and values: "+" is a space,
\* %XX is the byte XX, a "%" not followed by two hexadecimal digits stays.
\* (The two characters after a "%" that starts an escape are no "%", so
\* escapes do not overlap.)
IsEscapeAt(str, i) ==
    /\ str[i] = 37
    /\ i + 2 <= Len(str)
    /\ HexValue(str[i + 1]) >= 0
    /\ HexValue(str[i + 2]) >= 0

PercentDecode(str) ==
    LET kept == {i \in 1..Len(str) :
                    ~(\/ (i > 1 /\ IsEscapeAt(str, i - 1))
                      \/ (i > 2 /\ IsEscapeAt(str, i - 2)))}
        at(j) == CHOOSE i \in kept : Cardinality({k \in kept : k <= i}) = j
        decoded(i) == IF IsEscapeAt(str, i)
                      THEN 16 * HexValue(str[i + 1]) + HexValue(str[i + 2])
                      ELSE IF str[i] = 43 THEN 32 ELSE str[i]
    IN  [j \in 1..Cardinality(kept) |-> decoded(at(j))]

\* The index of the first ch in str, Len(str) + 1 when there is none.
IndexOf(str, ch) ==
    IF \E i \in 1..Len(str) : str[i] = ch
    THEN CHOOSE i \in 1..Len(str) : str[i] = ch /\ \A j \in 1..(i - 1) : str[j] # ch
    ELSE Len(str) + 1

\* new URLSearchParams(str).get(name): the pairs are separated by "&", a pair
\* is split at its first "=", the first pair of that name gives the value.
RECURSIVE URLSearchParamsGet(_, _)
URLSearchParamsGet(str, name) ==
    IF str = << >> THEN NoToken
    ELSE LET amp == IndexOf(str, 38)
             pair == SubSeq(str, 1, amp - 1)
             eq == IndexOf(pair, 61)
         IN  IF pair # << >> /\ PercentDecode(SubSeq(pair, 1, eq - 1)) = name
             THEN PercentDecode(SubSeq(pair, eq + 1, Len(pair)))
             ELSE URLSearchParamsGet(SubSeq(str, amp + 1, Len(str)), name)

\* \r?\n\r?\n at index q: the index after it, 0 when there is no match.
BlankLineEnd(str, q) ==
    LET a == IF q <= Len(str) /\ str[q] = 13 THEN q + 1 ELSE q
        b == IF a <= Len(str) /\ str[a] = 10 THEN a + 1 ELSE 0
        c == IF b # 0 /\ b <= Len(str) /\ str[b] = 13 THEN b + 1 ELSE b
    IN  IF c # 0 /\ c <= Len(str) /\ str[c] = 10 THEN c + 1 ELSE 0

\* The length of the run of characters other than \r and \n from index i.
LineRun(str, i) ==
    CHOOSE n \in 0..(Len(str) - i + 1) :
        /\ \A k \in i..(i + n - 1) : str[k] \notin {10, 13}
        /\ (i + n > Len(str) \/ str[i + n] \in {10, 13})

\* (xoxc-[^\r\n]+) right after a blank line at q: the group, << >> if no match.
MultipartGroupAt(str, q) ==
    LET g == BlankLineEnd(str, q) IN
    IF g # 0 /\ StartsWithAt(str, g, <<120, 111, 120, 99, 45>>) /\ LineRun(str, g + 5) > 0
    THEN SubSeq(str, g, g + 4 + LineRun(str, g + 5))
    ELSE << >>

\* formData.match(/name="token"[\s\S]*?\r?\n\r?\n(xoxc-[^\r\n]+)/)[1]: after
\* the first name="token", the first blank line that an xoxc- line follows.
MultipartTokenMatch(str) ==
    IF ~Includes(str, <<110, 97, 109, 101, 61, 34, 116, 111, 107, 101, 110, 34>>) THEN << >>
    ELSE LET p == CHOOSE p \in 1..Len(str) :
                     /\ StartsWithAt(str, p, <<110, 97, 109, 101, 61, 34, 116, 111, 107, 101, 110, 34>>)
                     /\ \A j \in 1..(p - 1) : ~StartsWithAt(str, j, <<110, 97, 109, 101, 61, 34, 116, 111, 107, 101, 110, 34>>)
             from == p + Len(<<110, 97, 109, 101, 61, 34, 116, 111, 107, 101, 110, 34>>)
             qs == {q \in from..Len(str) : MultipartGroupAt(str, q) # << >>}
         IN  IF qs = {} THEN << >>
             ELSE MultipartGroupAt(str, CHOOSE q \in qs : \A r \in qs : q <= r)

IsWhiteSpace(c) == c \in {32, 9, 10, 11, 12, 13, 160}

\* String.prototype.trim
Trim(str) ==
    LET inner == {i \in 1..Len(str) : ~IsWhiteSpace(str[i])} IN
    IF inner = {} THEN << >>
    ELSE SubSeq(str, CHOOSE i \in inner : \A j \in inner : i <= j,
                     CHOOSE i \in inner : \A j \in inner : i >= j)

\* extractTokenFromFormData: NoToken stands for null.
extractTokenFromFormData(formData) ==
    IF formData = << >> THEN NoToken
    ELSE LET urlEncoded == Includes(formData, <<61>>) /\ ~Includes(formData, <<67, 111, 110, 116, 101, 110, 116, 45, 68, 105, 115, 112, 111, 115, 105, 116, 105, 111, 110>>)
             multipart == ~urlEncoded /\ Includes(formData, <<67, 111, 110, 116, 101, 110, 116, 45, 68, 105, 115, 112, 111, 115, 105, 116, 105, 111, 110>>)
             param == URLSearchParamsGet(
                          IF formData[1] = 63 THEN Tail(formData) ELSE formData, <<116, 111, 107, 101, 110>>)
             part == Trim(MultipartTokenMatch(formData))
         IN  IF urlEncoded /\ param # << >> /\ XoxcTest(param) THEN param
             ELSE IF multipart /\ part # << >> /\ XoxcTest(part) THEN part
             ELSE IF XoxcTest(formData) THEN XoxcMatch(formData)
             ELSE NoToken


\* ---- intercepted request bodies ----
\* 64 characters of [0-9a-z]
HashA == <<97, 49, 98, 50, 99, 51, 100, 52, 97, 49, 98, 50, 99, 51, 100, 52, 97, 49, 98, 50, 99, 51, 100, 52, 97, 49, 98, 50, 99, 51, 100, 52, 97, 49, 98, 50, 99, 51, 100, 52, 97, 49, 98, 50, 99, 51, 100, 52, 97, 49, 98, 50, 99, 51, 100, 52, 97, 49, 98, 50, 99, 51, 100, 52>>
HashB == <<48, 122, 48, 122, 48, 122, 48, 122, 48, 122, 48, 122, 48, 122, 48, 122, 48, 122, 48, 122, 48, 122, 48, 122, 48, 122, 48, 122, 48, 122, 48, 122, 48, 122, 48, 122, 48, 122, 48, 122, 48, 122, 48, 122, 48, 122, 48, 122, 48, 122, 48, 122, 48, 122, 48, 122, 48, 122, 48, 122, 48, 122, 48, 122>>
\* "xoxc-12-345-6-" and HashA, "xoxc-7-8-9-" and HashB
TokenA == <<120, 111, 120, 99, 45, 49, 50, 45, 51, 52, 53, 45, 54, 45>> \o HashA
TokenB == <<120, 111, 120, 99, 45, 55, 45, 56, 45, 57, 45>> \o HashB
CRLF == <<13, 10>>
\* --b, then Content-Disposition: form-data; name="..." and a blank line
PartHead(name) == <<45, 45, 98>> \o CRLF \o <<67, 111, 110, 116, 101, 110, 116, 45, 68, 105, 115, 112, 111, 115, 105, 116, 105, 111, 110, 58, 32, 102, 111, 114, 109, 45, 100, 97, 116, 97, 59, 32, 110, 97, 109, 101, 61, 34>> \o name \o <<34>> \o CRLF \o CRLF

\* The bodies route.request().postData() can give; << >> stands for null and
\* for the empty string, which the handler treats alike.
Bodies ==
    [none |-> << >>,
     \* token=<TokenA>&other=x
     urlToken |-> <<116, 111, 107, 101, 110, 61>> \o TokenA \o <<38, 111, 116, 104, 101, 114, 61, 120>>,
     \* token=<TokenA>zz&other=x
     urlTokenLong |-> <<116, 111, 107, 101, 110, 61>> \o TokenA \o <<122, 122>> \o <<38, 111, 116, 104, 101, 114, 61, 120>>,
     \* a=1&token=xoxc%2D12-345-6-<HashA>
     urlTokenEscaped |-> <<97, 61, 49, 38>> \o <<116, 111, 107, 101, 110, 61>> \o <<120, 111, 120, 99, 37, 50, 68, 49, 50, 45, 51, 52, 53, 45, 54, 45>> \o HashA,
     \* token=Bearer+<TokenA>
     urlTokenPrefixed |-> <<116, 111, 107, 101, 110, 61>> \o <<66, 101, 97, 114, 101, 114, 43>> \o TokenA,
     \* other=x
     urlNoToken |-> <<111, 116, 104, 101, 114, 61, 120>>,
     \* token=xoxc-bad&note=<TokenB>
     urlTokenElsewhere |-> <<116, 111, 107, 101, 110, 61>> \o <<120, 111, 120, 99, 45, 98, 97, 100>> \o <<38, 110, 111, 116, 101, 61>> \o TokenB,
     \* token=xoxc-12-345-6-<63 characters>
     urlTokenShort |-> <<116, 111, 107, 101, 110, 61>> \o <<120, 111, 120, 99, 45, 49, 50, 45, 51, 52, 53, 45, 54, 45>> \o SubSeq(HashA, 1, 63),
     \* multipart, part "token" holding <TokenA> and two spaces
     multipartToken |-> PartHead(<<116, 111, 107, 101, 110>>) \o TokenA \o <<32, 32>> \o CRLF \o <<45, 45, 98, 45, 45>>,
     \* multipart, part "token" holding xoxc-bad, part "note" holding <TokenB>
     multipartElsewhere |-> PartHead(<<116, 111, 107, 101, 110>>) \o <<120, 111, 120, 99, 45, 98, 97, 100>> \o CRLF
                            \o PartHead(<<110, 111, 116, 101>>) \o TokenB \o CRLF \o <<45, 45, 98, 45, 45>>,
     \* {"t":"<TokenB>"}
     rawToken |-> <<123, 34, 116, 34, 58, 34>> \o TokenB \o <<34, 125>>]

BodyNames == DOMAIN Bodies


\* ---- interceptSlackAuthWithCookies ----
\* extractTokenFromFormData on each request body the page can send.
ExtractedFrom == [b \in BodyNames |-> extractTokenFromFormData(Bodies[b])]

\* At most this many matching requests are made while the page is open.
MaxRequests == 2

\* setTimeout(..., 30000)
TokenCaptureTimeoutMs == 30000

\* The clock advances in steps of a third of the timeout, to one step past it.
ClockStep == TokenCaptureTimeoutMs \div 3
ClockEnd == TokenCaptureTimeoutMs + ClockStep

\* The statements of interceptSlackAuthWithCookies in program order: the step
\* that follows step pos.
NextStepNavigateFirst(pos) ==
    CASE pos = "load_cookies" -> "add_cookies"
      [] pos = "add_cookies" -> "goto"
      [] pos = "goto" -> "register"
      [] pos = "register" -> "await_token"
      [] pos = "await_token" -> "get_cookies"
      [] OTHER -> "done"

NextStep(pos) ==
    CASE pos = "load_cookies" -> "add_cookies"
      [] pos = "add_cookies" -> "register"
      [] pos = "register" -> "goto"
      [] pos = "goto" -> "await_token"
      [] pos = "await_token" -> "get_cookies"
      [] OTHER -> "done"

PendingPromise == [state |-> "pending", value |-> << >>, error |-> NoValue]

\* resolve(value) and reject(error) of a promise: only the first settles it.
SettleAlways(promise, settlement) == settlement

Settle(promise, settlement) ==
    IF promise.state = "pending" THEN settlement ELSE promise

\* token?.startsWith('xoxc-')
AcceptsToken(token) == token # NoToken /\ StartsWithAt(token, 1, <<120, 111, 120, 99, 45>>)

\* How often the handler calls route.continue() for a request.
RouteContinuesUnlessCaptured(accepted) == IF accepted THEN 0 ELSE 1

RouteContinues(accepted) == 1

NoCaptureOutcome == [kind |-> "pending", token |-> << >>, error |-> NoValue]

InitCapture ==
    /\ ipc = "load_cookies"
    /\ cookiesReplayed = FALSE
    /\ routeInstalled = FALSE
    /\ timer = "none"
    /\ clock = 0
    /\ tokenPromise = PendingPromise
    /\ capturedToken = << >>
    /\ navigation = "idle"
    /\ intercepted = 0
    /\ continued = 0
    /\ unobserved = 0
    /\ firstToken = << >>
    /\ lastBody = NoValue
    /\ lastExtracted = << >>
    /\ captureOutcome = NoCaptureOutcome

\* The call rejects with err.
CaptureRejects(err) ==
    /\ captureOutcome' = [kind |-> "rejected", token |-> << >>, error |-> err]
    /\ ipc' = "done"

\* const existingCookies = await cookiesLoader()
LoadCookies ==
    /\ ipc = "load_cookies"
    /\ \/ ipc' = NextStep("load_cookies") /\ UNCHANGED captureOutcome
       \/ CaptureRejects("CookieLoadError")
    /\ UNCHANGED <<cookiesReplayed, routeInstalled, timer, clock, tokenPromise,
                   capturedToken, navigation, intercepted, continued, unobserved,
                   firstToken, lastBody, lastExtracted>>
    /\ UNCHANGED notCaptureVars

\* await page.context().addCookies(existingCookies)
AddCookies ==
    /\ ipc = "add_cookies"
    /\ \/ /\ cookiesReplayed' = TRUE
          /\ ipc' = NextStep("add_cookies")
          /\ UNCHANGED captureOutcome
       \/ /\ CaptureRejects("AddCookiesError")
          /\ UNCHANGED cookiesReplayed
    /\ UNCHANGED <<routeInstalled, timer, clock, tokenPromise, capturedToken,
                   navigation, intercepted, continued, unobserved, firstToken,
                   lastBody, lastExtracted>>
    /\ UNCHANGED notCaptureVars

\* The executor of tokenPromise: the timer is armed and the route registered.
RegisterRoute ==
    /\ ipc = "register"
    /\ timer' = "armed"
    /\ clock' = 0
    /\ routeInstalled' = TRUE
    /\ ipc' = NextStep("register")
    /\ UNCHANGED <<cookiesReplayed, tokenPromise, capturedToken, navigation,
                   intercepted, continued, unobserved, firstToken, lastBody,
                   lastExtracted, captureOutcome>>
    /\ UNCHANGED notCaptureVars

\* page.goto(workspaceUrl) is called: the navigation begins.
GotoBegins ==
    /\ ipc = "goto"
    /\ navigation' = "started"
    /\ ipc' = "navigating"
    /\ UNCHANGED <<cookiesReplayed, routeInstalled, timer, clock, tokenPromise,
                   capturedToken, intercepted, continued, unobserved, firstToken,
                   lastBody, lastExtracted, captureOutcome>>
    /\ UNCHANGED notCaptureVars

\* page.goto settles: the page has loaded, or the navigation failed.
GotoSettles ==
    /\ ipc = "navigating"
    /\ \/ /\ navigation' = "done"
          /\ ipc' = NextStep("goto")
          /\ UNCHANGED captureOutcome
       \/ /\ navigation' = "failed"
          /\ CaptureRejects("NavigationError")
    /\ UNCHANGED <<cookiesReplayed, routeInstalled, timer, clock, tokenPromise,
                   capturedToken, intercepted, continued, unobserved, firstToken,
                   lastBody, lastExtracted>>
    /\ UNCHANGED notCaptureVars

\* The page makes a request to **/api/api.features*: the route handler runs,
\* if it is registered.
RouteHandler ==
    /\ navigation # "idle"
    /\ intercepted + unobserved < MaxRequests
    /\ \E b \in BodyNames :
       IF ~routeInstalled
       THEN /\ unobserved' = unobserved + 1
            /\ UNCHANGED <<timer, tokenPromise, capturedToken, intercepted,
                           continued, firstToken, lastBody, lastExtracted>>
       ELSE LET formData == Bodies[b]
                token == IF formData # << >> THEN ExtractedFrom[b] ELSE NoToken
                accepted == formData # << >> /\ AcceptsToken(token)
            IN  /\ intercepted' = intercepted + 1
                /\ lastBody' = b
                /\ lastExtracted' = token
                /\ continued' = continued + RouteContinues(accepted)
                /\ IF accepted
                   THEN /\ capturedToken' = token
                        /\ timer' = IF timer = "armed" THEN "cleared" ELSE timer
                        /\ tokenPromise' =
                              Settle(tokenPromise,
                                     [state |-> "resolved", value |-> token,
                                      error |-> NoValue])
                        /\ firstToken' = IF firstToken = << >> THEN token
                                         ELSE firstToken
                   ELSE UNCHANGED <<capturedToken, timer, tokenPromise, firstToken>>
                /\ UNCHANGED unobserved
    /\ UNCHANGED <<ipc, cookiesReplayed, routeInstalled, clock, navigation,
                   captureOutcome>>
    /\ UNCHANGED notCaptureVars

\* Time passes; a timer that is due fires before more time passes.
Tick ==
    /\ timer # "none"
    /\ clock < ClockEnd
    /\ ~(timer = "armed" /\ clock >= TokenCaptureTimeoutMs)
    /\ clock' = clock + ClockStep
    /\ UNCHANGED <<ipc, cookiesReplayed, routeInstalled, timer, tokenPromise,
                   capturedToken, navigation, intercepted, continued, unobserved,
                   firstToken, lastBody, lastExtracted, captureOutcome>>
    /\ UNCHANGED notCaptureVars

\* The callback of setTimeout: reject(new Error('Token capture timeout ...')).
TimerFires ==
    /\ timer = "armed"
    /\ clock >= TokenCaptureTimeoutMs
    /\ timer' = "fired"
    /\ tokenPromise' = Settle(tokenPromise,
                              [state |-> "rejected", value |-> << >>,
                               error |-> "TokenCaptureTimeout"])
    /\ UNCHANGED <<ipc, cookiesReplayed, routeInstalled, clock, capturedToken,
                   navigation, intercepted, continued, unobserved, firstToken,
                   lastBody, lastExtracted, captureOutcome>>
    /\ UNCHANGED notCaptureVars

\* const token = await tokenPromise
AwaitToken ==
    /\ ipc = "await_token"
    /\ tokenPromise.state # "pending"
    /\ IF tokenPromise.state = "resolved"
       THEN ipc' = NextStep("await_token") /\ UNCHANGED captureOutcome
       ELSE CaptureRejects(tokenPromise.error)
    /\ UNCHANGED <<cookiesReplayed, routeInstalled, timer, clock, tokenPromise,
                   capturedToken, navigation, intercepted, continued, unobserved,
                   firstToken, lastBody, lastExtracted>>
    /\ UNCHANGED notCaptureVars

\* const allCookies = await page.context().cookies(); return { token, cookies }
GetCookies ==
    /\ ipc = "get_cookies"
    /\ \/ /\ captureOutcome' = [kind |-> "resolved", token |-> tokenPromise.value,
                                error |-> NoValue]
          /\ ipc' = NextStep("get_cookies")
       \/ CaptureRejects("CookiesReadError")
    /\ UNCHANGED <<cookiesReplayed, routeInstalled, timer, clock, tokenPromise,
                   capturedToken, navigation, intercepted, continued, unobserved,
                   firstToken, lastBody, lastExtracted>>
    /\ UNCHANGED notCaptureVars

NextCapture ==
    \/ LoadCookies
    \/ AddCookies
    \/ RegisterRoute
    \/ GotoBegins
    \/ GotoSettles
    \/ RouteHandler
    \/ Tick
    \/ TimerFires
    \/ AwaitToken
    \/ GetCookies

InitCaptureOnly ==
    InitCapture /\ SolverIdle /\ PollerIdle /\ FlowIdle /\ SessionIdle /\ CookiesIdle
    /\ ServerIdle
    /\ ClickIdle
    /\ BodyIdle
    /\ ConfigIdle
    /\ BannerIdle
    /\ InjectIdle
    /\ CallbackIdle
    /\ StampIdle

SpecCapture == InitCaptureOnly /\ [][NextCapture]_vars



\* ---- SlackApi ----
\* Channels of a client.userBoot response; getRecentMessages samples the first
\* SampledChannels of them.
MaxChannels == 2
SampledChannels == 5

\* What the HTTP exchange of one request comes to: a JSON body with the fields
\* of SlackApiResponseSchema, an HTML page, or no answer.
Responses ==
    [ okNoChannels  |-> [kind |-> "json", ok |-> TRUE, error |-> NoValue,
                         warning |-> NoValue, channels |-> 0],
      okChannels    |-> [kind |-> "json", ok |-> TRUE, error |-> NoValue,
                         warning |-> NoValue, channels |-> MaxChannels],
      okWithWarning |-> [kind |-> "json", ok |-> TRUE, error |-> NoValue,
                         warning |-> "missing_charset", channels |-> 1],
      notOkError    |-> [kind |-> "json", ok |-> FALSE, error |-> "invalid_auth",
                         warning |-> NoValue, channels |-> 1],
      notOkWarning  |-> [kind |-> "json", ok |-> FALSE, error |-> NoValue,
                         warning |-> "superfluous_charset", channels |-> 1],
      notOkBoth     |-> [kind |-> "json", ok |-> FALSE, error |-> "ratelimited",
                         warning |-> "slow_down", channels |-> 1],
      notOkBare     |-> [kind |-> "json", ok |-> FALSE, error |-> NoValue,
                         warning |-> NoValue, channels |-> 1],
      html          |-> [kind |-> "html", ok |-> FALSE, error |-> NoValue,
                         warning |-> NoValue, channels |-> 0],
      noAnswer      |-> [kind |-> "network_error", ok |-> FALSE, error |-> NoValue,
                         warning |-> NoValue, channels |-> 0] ]

ResponseNames == DOMAIN Responses

Returned(r) ==
    [kind |-> "returned", channels |-> Responses[r].channels,
     prefix |-> NoValue, detail |-> NoValue, sampled |-> << >>]

Threw(prefix, detail) ==
    [kind |-> "threw", channels |-> 0, prefix |-> prefix, detail |-> detail,
     sampled |-> << >>]

\* baseResponse.error || baseResponse.warning || `API returned ok:false ...`
ErrorDetailOf(resp) ==
    IF resp.error # NoValue THEN resp.error
    ELSE IF resp.warning # NoValue THEN resp.warning
    ELSE "API returned ok:false without error message"

\* makeSlackApiRequest on the response named r.
makeSlackApiRequest(r) ==
    LET resp == Responses[r]
    IN  IF resp.kind = "network_error" THEN Threw("AxiosError", NoValue)
        ELSE IF resp.kind = "html" THEN Threw("Received HTML response", NoValue)
        ELSE IF ~resp.ok THEN Threw("Slack API error: ", ErrorDetailOf(resp))
        ELSE Returned(r)

\* The operations that are one request each.
SingleRequestOperations ==
    {"clientUserBoot", "getConversationsList", "getConversationHistory",
     "getConversationReplies", "postMessage", "deleteMessage"}

\* getRecentMessages: client.userBoot, then conversations.history for the
\* first channels; a history request that throws is logged and skipped.
RECURSIVE SampleChannels(_, _)
SampleChannels(histories, k) ==
    IF k > Len(histories) THEN << >>
    ELSE LET h == makeSlackApiRequest(histories[k])
         IN  (IF h.kind = "returned" THEN <<k>> ELSE << >>)
             \o SampleChannels(histories, k + 1)

Min(a, b) == IF a < b THEN a ELSE b

getRecentMessages(boot, histories) ==
    LET b == makeSlackApiRequest(boot)
    IN  IF b.kind = "threw" THEN b
        ELSE [b EXCEPT !.sampled = SampleChannels(histories, 1)]

\* The history responses getRecentMessages receives after the boot response.
HistoriesFor(boot) ==
    LET b == makeSlackApiRequest(boot)
        n == IF b.kind = "returned" THEN Min(b.channels, SampledChannels) ELSE 0
    IN  [1..n -> ResponseNames]

NoCall == [op |-> NoValue, responses |-> << >>,
           outcome |-> [kind |-> NoValue, channels |-> 0, prefix |-> NoValue,
                        detail |-> NoValue, sampled |-> << >>]]

\* One call of a SlackApi operation.
ApiCalls ==
    {[op |-> op, responses |-> <<r>>, outcome |-> makeSlackApiRequest(r)] :
        op \in SingleRequestOperations, r \in ResponseNames}
    \cup
    UNION {{[op |-> "getRecentMessages", responses |-> <<boot>> \o hs,
             outcome |-> getRecentMessages(boot, hs)] : hs \in HistoriesFor(boot)} :
           boot \in ResponseNames}

\* ---- the token-capture session: createSlackApi and its callers ----
\* Requests the plugin's routes serve before the server shuts down.
MaxServed == 2

Callers == {"plugin", "script"}

\* How interceptSlackAuthWithCookies settles.
InterceptOutcomes ==
    {"resolved", "CookieLoadError", "AddCookiesError", "NavigationError",
     "TokenCaptureTimeout", "CookiesReadError"}

NoSessionOutcome == [kind |-> "pending", error |-> NoValue]

InitSession ==
    /\ caller \in Callers
    /\ sessionPc = "launch"
    /\ browserOpen = FALSE
    /\ contextOpen = FALSE
    /\ hookRegistered = FALSE
    /\ sessionOutcome = NoSessionOutcome
    /\ served = 0
    /\ lastCall = NoCall

\* createSlackApi rejects with err: the plugin logs and rethrows (the server
\* then exits), the script ends with the uncaught rejection.
SessionFails(err) ==
    /\ sessionOutcome' = [kind |-> "failed", error |-> err]
    /\ sessionPc' = "done"

\* await chromium.launch()
Launch ==
    /\ sessionPc = "launch"
    /\ \/ /\ browserOpen' = TRUE
          /\ sessionPc' = "new_context"
          /\ UNCHANGED sessionOutcome
       \/ /\ SessionFails("LaunchError")
          /\ UNCHANGED browserOpen
    /\ UNCHANGED <<caller, contextOpen, hookRegistered, served, lastCall>>
    /\ UNCHANGED notSessionVars

\* const context = await this.browser.newContext()
NewContext ==
    /\ sessionPc = "new_context"
    /\ \/ /\ contextOpen' = TRUE
          /\ sessionPc' = "new_page"
          /\ UNCHANGED sessionOutcome
       \/ /\ SessionFails("NewContextError")
          /\ UNCHANGED contextOpen
    /\ UNCHANGED <<caller, browserOpen, hookRegistered, served, lastCall>>
    /\ UNCHANGED notSessionVars

\* const page = await context.newPage()
NewPage ==
    /\ sessionPc = "new_page"
    /\ \/ sessionPc' = "intercept" /\ UNCHANGED sessionOutcome
       \/ SessionFails("NewPageError")
    /\ UNCHANGED <<caller, browserOpen, contextOpen, hookRegistered, served, lastCall>>
    /\ UNCHANGED notSessionVars

\* const authResult = await interceptSlackAuthWithCookies(...)
Intercept ==
    /\ sessionPc = "intercept"
    /\ \E o \in InterceptOutcomes :
          IF o = "resolved"
          THEN sessionPc' = "close_context" /\ UNCHANGED sessionOutcome
          ELSE SessionFails(o)
    /\ UNCHANGED <<caller, browserOpen, contextOpen, hookRegistered, served, lastCall>>
    /\ UNCHANGED notSessionVars

\* await context.close(); return new SlackApi(...)
CloseContext ==
    /\ sessionPc = "close_context"
    /\ contextOpen' = FALSE
    /\ sessionPc' = IF caller = "plugin" THEN "decorate" ELSE "user_boot"
    /\ UNCHANGED <<caller, browserOpen, hookRegistered, sessionOutcome, served, lastCall>>
    /\ UNCHANGED notSessionVars

\* The plugin decorates the server and registers the onClose hook.
Decorate ==
    /\ sessionPc = "decorate"
    /\ hookRegistered' = TRUE
    /\ sessionPc' = "serving"
    /\ UNCHANGED <<caller, browserOpen, contextOpen, sessionOutcome, served, lastCall>>
    /\ UNCHANGED notSessionVars

\* A route of the plugin calls an operation of SlackApi.
ServeRequest ==
    /\ sessionPc = "serving"
    /\ served < MaxServed
    /\ \E c \in ApiCalls : lastCall' = c
    /\ served' = served + 1
    /\ UNCHANGED <<caller, sessionPc, browserOpen, contextOpen, hookRegistered, sessionOutcome>>
    /\ UNCHANGED notSessionVars

\* fastify.close(): the onClose hook closes the browser.
Shutdown ==
    /\ sessionPc = "serving"
    /\ browserOpen' = IF hookRegistered THEN FALSE ELSE browserOpen
    /\ sessionOutcome' = [kind |-> "completed", error |-> NoValue]
    /\ sessionPc' = "done"
    /\ UNCHANGED <<caller, contextOpen, hookRegistered, served, lastCall>>
    /\ UNCHANGED notSessionVars

\* The script: await slackApi.clientUserBoot(workspaceUrl), inside try.
ScriptUserBoot ==
    /\ sessionPc = "user_boot"
    /\ \E c \in ApiCalls :
          /\ c.op = "clientUserBoot"
          /\ lastCall' = c
          /\ sessionPc' = IF c.outcome.kind = "threw" THEN "close_browser"
                    ELSE "recent_messages"
    /\ UNCHANGED <<caller, browserOpen, contextOpen, hookRegistered, sessionOutcome, served>>
    /\ UNCHANGED notSessionVars

\* The script: await slackApi.getRecentMessages(workspaceUrl), inside try.
ScriptRecentMessages ==
    /\ sessionPc = "recent_messages"
    /\ \E c \in ApiCalls :
          /\ c.op = "getRecentMessages"
          /\ lastCall' = c
    /\ sessionPc' = "close_browser"
    /\ UNCHANGED <<caller, browserOpen, contextOpen, hookRegistered, sessionOutcome, served>>
    /\ UNCHANGED notSessionVars

\* The script: await browser.close()
ScriptCloseBrowser ==
    /\ sessionPc = "close_browser"
    /\ browserOpen' = FALSE
    /\ sessionOutcome' = [kind |-> "completed", error |-> NoValue]
    /\ sessionPc' = "done"
    /\ UNCHANGED <<caller, contextOpen, hookRegistered, served, lastCall>>
    /\ UNCHANGED notSessionVars

NextSession ==
    \/ Launch
    \/ NewContext
    \/ NewPage
    \/ Intercept
    \/ CloseContext
    \/ Decorate
    \/ ServeRequest
    \/ Shutdown
    \/ ScriptUserBoot
    \/ ScriptRecentMessages
    \/ ScriptCloseBrowser

InitSessionOnly ==
    InitSession /\ SolverIdle /\ PollerIdle /\ FlowIdle /\ CaptureIdle /\ CookiesIdle
    /\ ServerIdle
    /\ ClickIdle
    /\ BodyIdle
    /\ ConfigIdle
    /\ BannerIdle
    /\ InjectIdle
    /\ CallbackIdle
    /\ StampIdle

SpecSession == InitSessionOnly /\ [][NextSession]_vars


\* ---- cookie transformer ----
\* Cookies in the array given to transformCookies.
MaxCookies == 2

\* The values of sameSite in cookies.json: the four the browser export writes,
\* and two it does not.
SameSiteValues == {"strict", "lax", "no_restriction", "unspecified", "none", "Strict"}

\* expirationDate in thousandths of a second; NoDate is an absent field.
NoDate == -1

\* The raw cookies the arrays are made of.
RawCookiePool ==
    {[name |-> "d", value |-> "xoxd-1", domain |-> ".slack.com", path |-> "/",
      httpOnly |-> TRUE, secure |-> TRUE, sameSite |-> ss,
      expirationDate |-> 1700500] : ss \in SameSiteValues}
    \cup
    {[name |-> "b", value |-> "v2", domain |-> "app.slack.com", path |-> "/client",
      httpOnly |-> FALSE, secure |-> TRUE, sameSite |-> ss,
      expirationDate |-> NoDate] : ss \in SameSiteValues}
    \cup
    {[name |-> "x", value |-> "", domain |-> "slack.com", path |-> "/",
      httpOnly |-> FALSE, secure |-> FALSE, sameSite |-> ss,
      expirationDate |-> 0] : ss \in SameSiteValues}

CookieArrays == UNION {[1..n -> RawCookiePool] : n \in 0..MaxCookies}

mapSameSiteValueVerbatimNone(sameSite) ==
    IF sameSite = "strict" THEN "Strict"
    ELSE IF sameSite = "lax" THEN "Lax"
    ELSE IF sameSite = "no_restriction" THEN "None"
    ELSE IF sameSite = "unspecified" THEN "None"
    ELSE "Lax"

mapSameSiteValue(sameSite) ==
    IF sameSite = "strict" THEN "Strict"
    ELSE IF sameSite = "lax" THEN "Lax"
    ELSE IF sameSite = "no_restriction" THEN "None"
    ELSE IF sameSite = "unspecified" THEN "Lax"
    ELSE "Lax"

\* if (cookie.expirationDate): absent and 0 are falsy.
HasExpirationDate(cookie) ==
    cookie.expirationDate # NoDate /\ cookie.expirationDate # 0

\* The Playwright cookie; expires is in seconds, hasExpires tells whether the
\* property is there.
transformCookie(cookie) ==
    [name |-> cookie.name,
     value |-> cookie.value,
     domain |-> cookie.domain,
     path |-> cookie.path,
     httpOnly |-> cookie.httpOnly,
     secure |-> cookie.secure,
     sameSite |-> mapSameSiteValue(cookie.sameSite),
     hasExpires |-> HasExpirationDate(cookie),
     expires |-> IF HasExpirationDate(cookie)
                 THEN cookie.expirationDate \div 1000 ELSE 0]

\* rawCookies.map(transformCookie)
transformCookies(raw) == [i \in 1..Len(raw) |-> transformCookie(raw[i])]

InitCookies ==
    /\ cookiesPc = "loaded"
    /\ rawCookies \in CookieArrays
    /\ rawCookiesAtLoad = rawCookies
    /\ playwrightCookies = << >>

\* transformCookies(rawCookies): map builds a new array and transformCookie a
\* new object; neither writes to its argument.
TransformCookies ==
    /\ cookiesPc = "loaded"
    /\ playwrightCookies' = transformCookies(rawCookies)
    /\ cookiesPc' = "transformed"
    /\ UNCHANGED <<rawCookies, rawCookiesAtLoad>>
    /\ UNCHANGED notCookieVars

NextCookies == TransformCookies

InitCookiesOnly ==
    InitCookies /\ SolverIdle /\ PollerIdle /\ FlowIdle /\ CaptureIdle /\ SessionIdle
    /\ ServerIdle
    /\ ClickIdle
    /\ BodyIdle
    /\ ConfigIdle
    /\ BannerIdle
    /\ InjectIdle
    /\ CallbackIdle
    /\ StampIdle

SpecCookies == InitCookiesOnly /\ [][NextCookies]_vars

\* ---- properties of the token interceptor ----
\* The whole of t is xoxc-<digits>-<digits>-<digits>-<64 of [0-9a-z]>.
ConformsInFull(t) ==
    LET c == Len(t) - 64
    IN  /\ c >= 11
        /\ SubSeq(t, 1, 5) = <<120, 111, 120, 99, 45>>
        /\ t[c] = Hyphen
        /\ \A k \in (c + 1)..Len(t) : t[k] \in (48..57) \cup (97..122)
        /\ \E a, b \in 7..(c - 2) :
              /\ a + 1 < b
              /\ t[a] = Hyphen /\ t[b] = Hyphen
              /\ \A k \in (6..(a - 1)) \cup ((a + 1)..(b - 1)) \cup ((b + 1)..(c - 1)) :
                    t[k] \in 48..57

\* C13: any token interceptSlackAuthWithCookies resolves with conforms in
\* full to xoxc-[0-9]+-[0-9]+-[0-9]+-[0-9a-z]{64}, and a request whose body
\* yields no conforming token does not resolve the capture.
C13_ResolvedTokenConformsInFull ==
    /\ captureOutcome.kind = "resolved" => ConformsInFull(captureOutcome.token)
    /\ tokenPromise.state = "resolved" => ConformsInFull(tokenPromise.value)

\* C14: extractTokenFromFormData returns the conforming token of the token
\* field (URL-encoded or multipart), else the first conforming substring of
\* the raw body, else null: what it returns for the body of a request is null
\* or a conforming token.
C14_ExtractsConformingTokenOrNull ==
    (lastBody # NoValue /\ lastExtracted # NoToken) => ConformsInFull(lastExtracted)


C16_EveryInterceptedRequestContinuesOnce == continued = intercepted

\* Two requests were handled, the last one after the timer had fired and
\* with a token in it.
C16_Witness ==
    /\ intercepted >= 2
    /\ timer = "fired"
    /\ tokenPromise.state = "rejected"
    /\ lastExtracted = capturedToken
    /\ capturedToken # NoToken

\* C17 as stated: once a token was captured before the timeout, the call
\* resolves with that token.
C17_CapturedFirstCallResolves ==
    (ipc = "done" /\ timer = "cleared") =>
        (captureOutcome.kind = "resolved" /\ captureOutcome.token = firstToken)

\* The timer has run out without a token: tokenPromise is rejected with the
\* timeout error, and stays so.
C17_TimeoutRejects ==
    /\ timer = "fired" =>
          (tokenPromise.state = "rejected" /\ tokenPromise.error = "TokenCaptureTimeout")
    /\ (timer # "none" /\ clock > TokenCaptureTimeoutMs) => timer \in {"fired", "cleared"}
    /\ (timer = "armed") => (firstToken = NoToken /\ tokenPromise.state = "pending")

\* A token came first: tokenPromise is resolved with it, and the timer is off.
C17_FirstTokenResolves ==
    /\ timer = "cleared" =>
          (tokenPromise.state = "resolved" /\ tokenPromise.value = firstToken
           /\ firstToken # NoToken)
    /\ tokenPromise.state = "resolved" => timer = "cleared"

\* The call settles as tokenPromise did, unless page.goto or the final read of
\* the cookies failed.
C17_CallFollowsTokenPromise ==
    /\ captureOutcome.kind = "resolved" =>
          (tokenPromise.state = "resolved" /\ captureOutcome.token = firstToken)
    /\ captureOutcome.error = "TokenCaptureTimeout" => timer = "fired"
    /\ (ipc = "done" /\ navigation = "done" /\ captureOutcome.error # "CookiesReadError") =>
          IF timer = "cleared"
          THEN captureOutcome.kind = "resolved" /\ captureOutcome.token = firstToken
          ELSE captureOutcome.kind = "rejected"
               /\ captureOutcome.error = "TokenCaptureTimeout"

\* C17 (amended): without a token within 30000 ms tokenPromise rejects with a
\* timeout error; with a token first, tokenPromise resolves with that first
\* token and the timer never rejects afterwards; the call settles as
\* tokenPromise did provided page.goto and the final cookies read succeed.
C17_TimeoutOrFirstToken ==
    /\ C17_TimeoutRejects
    /\ C17_FirstTokenResolves
    /\ C17_CallFollowsTokenPromise

\* The call resolved with the first token while a second request carried
\* another token, past the time the timer was set for.
C17_Witness ==
    /\ captureOutcome.kind = "resolved"
    /\ captureOutcome.token = firstToken
    /\ capturedToken # firstToken
    /\ capturedToken # NoToken
    /\ clock > TokenCaptureTimeoutMs
    /\ timer = "cleared"


\* ---- properties of the session and of SlackApi ----
\* C18: when a token-capture flow has ended, on success or on failure, the
\* browser context and the browser it acquired are closed.
C18_ContextAndBrowserClosedAtEnd ==
    sessionPc = "done" => (~contextOpen /\ ~browserOpen)

\* C19: a SlackApi call that received a response with ok = false rejects,
\* and its error carries the response's error field, or its warning field when
\* there is no error field.
C19_NotOkResponseRejects ==
    \A k \in 1..Len(lastCall.responses) :
        LET resp == Responses[lastCall.responses[k]]
        IN  (resp.kind = "json" /\ ~resp.ok) =>
                /\ lastCall.outcome.kind = "threw"
                /\ resp.error # NoValue => lastCall.outcome.detail = resp.error
                /\ (resp.error = NoValue /\ resp.warning # NoValue) =>
                      lastCall.outcome.detail = resp.warning


\* ---- properties of the cookie transformer ----
\* The sameSite value the table gives for a raw value.
C20_SameSiteTable(ss) ==
    CASE ss = "strict" -> "Strict"
      [] ss = "lax" -> "Lax"
      [] ss = "no_restriction" -> "None"
      [] OTHER -> "Lax"

\* C20: transformCookies returns as many cookies as it was given, in the same
\* order, each with name, value, domain, path, httpOnly and secure copied and
\* sameSite mapped strict -> Strict, lax -> Lax, no_restriction -> None,
\* unspecified and anything else -> Lax; the array it was given is unchanged.
C20_TransformKeepsCookies ==
    cookiesPc = "transformed" =>
        /\ Len(playwrightCookies) = Len(rawCookiesAtLoad)
        /\ \A i \in 1..Len(rawCookiesAtLoad) :
              /\ playwrightCookies[i].name = rawCookiesAtLoad[i].name
              /\ playwrightCookies[i].value = rawCookiesAtLoad[i].value
              /\ playwrightCookies[i].domain = rawCookiesAtLoad[i].domain
              /\ playwrightCookies[i].path = rawCookiesAtLoad[i].path
              /\ playwrightCookies[i].httpOnly = rawCookiesAtLoad[i].httpOnly
              /\ playwrightCookies[i].secure = rawCookiesAtLoad[i].secure
              /\ playwrightCookies[i].sameSite =
                    C20_SameSiteTable(rawCookiesAtLoad[i].sameSite)
        /\ rawCookies = rawCookiesAtLoad

\* Two different cookies were transformed, one unspecified and one
\* no_restriction, in that order.
C20_Witness ==
    /\ cookiesPc = "transformed"
    /\ Len(rawCookies) = 2
    /\ rawCookies[1].sameSite = "unspecified" /\ rawCookies[1].name = "d"
    /\ rawCookies[2].sameSite = "no_restriction" /\ rawCookies[2].name = "b"
    /\ playwrightCookies[1].sameSite = "Lax" /\ playwrightCookies[1].name = "d"
    /\ playwrightCookies[2].sameSite = "None" /\ playwrightCookies[2].name = "b"


\* C21: transformCookie sets expires to the floor of expirationDate whenever
\* the raw cookie has an expirationDate, 0 included, and leaves expires out
\* exactly when expirationDate is absent.
C21_ExpiresIsFloorWheneverDated ==
    cookiesPc = "transformed" =>
        \A i \in 1..Len(rawCookiesAtLoad) :
            /\ playwrightCookies[i].hasExpires =
                  (rawCookiesAtLoad[i].expirationDate # NoDate)
            /\ playwrightCookies[i].hasExpires =>
                  /\ playwrightCookies[i].expires * 1000 <= rawCookiesAtLoad[i].expirationDate
                  /\ rawCookiesAtLoad[i].expirationDate < (playwrightCookies[i].expires + 1) * 1000


\* ---- the notBefore timestamp: driver and waitForVerificationPageAndGetCode ----
\* The run is followed for this many ms of wall-clock time (one unit = 1 ms
\* of the model's scale).
MaxWallClock == 6

\* How long page.click takes from its call to the page transition.
ClickLatencies == {1, 2}

\* searchConfirmationMailAfter || new Date()
searchAfterTimestampNow(supplied, current) == current

searchAfterTimestampOf(supplied, current) ==
    IF supplied # NaN THEN supplied ELSE current

InitStamp ==
    /\ stampPc = "capture"
    /\ wallClock \in {0, 1}
    /\ suppliesTimestamp \in BOOLEAN
    /\ searchConfirmationMailAfter = NaN
    /\ transitionAt = NaN
    /\ mailReceivedAt = NaN
    /\ notBefore = NaN
    /\ mailDecision = "none"

\* The driver captures new Date() before the click; a caller that passes no
\* timestamp does not.
CaptureTimestamp ==
    /\ stampPc = "capture"
    /\ searchConfirmationMailAfter' = IF suppliesTimestamp THEN wallClock ELSE NaN
    /\ stampPc' = "click"
    /\ UNCHANGED <<wallClock, suppliesTimestamp, transitionAt, mailReceivedAt,
                   notBefore, mailDecision>>
    /\ UNCHANGED notStampVars

\* await page.click("button[type='submit']"): the page changes and the
\* verification email is on its way.
ClickSubmit ==
    /\ stampPc = "click"
    /\ \E d \in ClickLatencies :
          /\ wallClock + d <= MaxWallClock
          /\ wallClock' = wallClock + d
          /\ transitionAt' = wallClock + d
    /\ stampPc' = "loading"
    /\ UNCHANGED <<suppliesTimestamp, searchConfirmationMailAfter, mailReceivedAt,
                   notBefore, mailDecision>>
    /\ UNCHANGED notStampVars

\* Time passes while the page loads or the poller waits.
Elapse ==
    /\ stampPc \in {"loading", "polling"}
    /\ wallClock < MaxWallClock
    /\ wallClock' = wallClock + 1
    /\ UNCHANGED <<stampPc, suppliesTimestamp, searchConfirmationMailAfter,
                   transitionAt, mailReceivedAt, notBefore, mailDecision>>
    /\ UNCHANGED notStampVars

\* The verification email is received, at some moment from the transition on.
MailArrives ==
    /\ transitionAt # NaN
    /\ mailReceivedAt = NaN
    /\ mailReceivedAt' = wallClock
    /\ UNCHANGED <<stampPc, wallClock, suppliesTimestamp, searchConfirmationMailAfter,
                   transitionAt, notBefore, mailDecision>>
    /\ UNCHANGED notStampVars

\* waitForSelector('input[aria-label="digit 1 of 6"]') resolves, and
\* searchAfterTimestamp = searchConfirmationMailAfter || new Date().
PageVisible ==
    /\ stampPc = "loading"
    /\ notBefore' = searchAfterTimestampOf(searchConfirmationMailAfter, wallClock)
    /\ stampPc' = "polling"
    /\ UNCHANGED <<wallClock, suppliesTimestamp, searchConfirmationMailAfter,
                   transitionAt, mailReceivedAt, mailDecision>>
    /\ UNCHANGED notStampVars

\* The poller fetches the email and compares its date with searchAfterTimestamp.
PollerDecides ==
    /\ stampPc = "polling"
    /\ mailReceivedAt # NaN
    /\ mailDecision' = IF isAfter(mailReceivedAt, notBefore) THEN "inspected"
                       ELSE "skipped"
    /\ stampPc' = "done"
    /\ UNCHANGED <<wallClock, suppliesTimestamp, searchConfirmationMailAfter,
                   transitionAt, mailReceivedAt, notBefore>>
    /\ UNCHANGED notStampVars

NextStamp ==
    \/ CaptureTimestamp
    \/ ClickSubmit
    \/ Elapse
    \/ MailArrives
    \/ PageVisible
    \/ PollerDecides

InitStampOnly ==
    InitStamp /\ SolverIdle /\ PollerIdle /\ FlowIdle /\ CaptureIdle /\ SessionIdle
    /\ ServerIdle
    /\ ClickIdle
    /\ BodyIdle
    /\ ConfigIdle
    /\ BannerIdle
    /\ InjectIdle
    /\ CallbackIdle
    /\ CookiesIdle

SpecStamp == InitStampOnly /\ [][NextStamp]_vars

C23_CanonicalCodeIsEnteredWithoutError ==
    (receivedCode # << >> /\ FullyMatchesCodePattern(receivedCode)) =>
        error # "InvalidCodeLength"


\* C24: the strategies are tried in the order accessible name, title with
\* ancestor link, authenticate button of the workspace container, generic
\* authenticate button, role lookup: the generic authenticate button is never
\* clicked before the one of the workspace container.
C24_ScopedButtonBeforeGenericButton ==
    \A j, k \in 1..Len(clickLog) :
        (clickLog[j].via = "genericButton" /\ clickLog[k].via = "contextualButton")
            => k < j


\* The first probe found neither the workspace markers nor a code input.
FirstProbeUnclear ==
    /\ firstProbe # NoValue
    /\ ~(Markers(firstProbe).workspaceList /\ Markers(firstProbe).workspaceLinks)
    /\ ~(Markers(firstProbe).emailInput \/ Markers(firstProbe).confirmationCode)

\* C25: when the first probe finds neither the workspace markers nor the code
\* input markers, handleSlackLoginFlow waits and probes once more: a workspace
\* link found then leads to clickWorkspace, a code input to the verification
\* branch, and anything else to a rejection; there is no third probe, and no
\* second probe after a first probe that found a page.
C25_ReprobesExactlyOnce ==
    /\ probes <= 2
    /\ (probes >= 1 /\ ~FirstProbeUnclear) => (probes = 1 /\ secondProbe = NoValue)
    /\ (probes = 1 /\ FirstProbeUnclear) =>
          (fpc = "delayed" /\ pollerCalls = 0 /\ clickCalls = 0)
    /\ probes = 2 =>
          /\ FirstProbeUnclear
          /\ IF Markers(secondProbe).workspaceLinks
             THEN /\ branch = "delayed_workspace"
                  /\ pollerCalls = 0
                  /\ fpc = "click" \/ clickCalls >= 1
             ELSE IF Markers(secondProbe).emailInput
             THEN /\ branch = "delayed_verification"
                  /\ fpc = "await_code" \/ pollerCalls = 1
             ELSE /\ flowOutcome = "rejected"
                  /\ error = "UndetectedPage"
                  /\ pollerCalls = 0
                  /\ clickCalls = 0

\* The first probe saw an unclear page, the second one saw the workspace links
\* next to the code input, and the flow resolved through clickWorkspace.
C25_Witness ==
    /\ probes = 2
    /\ firstProbe = "blank"
    /\ secondProbe = "both"
    /\ branch = "delayed_workspace"
    /\ flowOutcome = "resolved"
    /\ pollerCalls = 0


\* C26: the error handleSlackLoginFlow rejects with when the page is still
\* unclear after the second probe includes the URL and the title of the page.
C26_UndetectedPageErrorCarriesUrlAndTitle ==
    (flowOutcome = "rejected" /\ thrown.name = "UndetectedPage") =>
        /\ thrown.url = PageUrl(page)
        /\ thrown.title = PageTitle(page)


\* The flow is in one of its two verification branches.
InVerificationBranch == branch \in {"verification", "delayed_verification"}

\* C27: in the verification branch the code is obtained from the poller, then
\* entered, then the workspace links are seen, then clickWorkspace is called;
\* when the code is not obtained, its entry fails or the links do not appear,
\* the flow rejects and clickWorkspace is not called.
C27_VerificationStepsInOrder ==
    InVerificationBranch =>
        /\ enteredCode # << >> =>
              (receivedCode # << >> /\ pollerCalls = 1 /\ Len(enteredCode) = 6)
        /\ receivedCode # << >> => pollerCalls = 1
        /\ fpc = "click" =>
              (enteredCode # << >> /\ Markers(page).workspaceLinks /\ clickCalls = 0)
        /\ clickCalls >= 1 => (enteredCode # << >> /\ workspaceSelectionAttempted)
        /\ (fpc = "done" /\ (receivedCode = << >> \/ enteredCode = << >>
                             \/ ~workspaceSelectionAttempted)) =>
              (flowOutcome = "rejected" /\ clickCalls = 0)

\* The code was obtained and entered, the links did not appear, and the flow
\* rejected without a call of clickWorkspace.
C27_Witness ==
    /\ InVerificationBranch
    /\ receivedCode # << >>
    /\ enteredCode # << >>
    /\ flowOutcome = "rejected"
    /\ error = "TimeoutError"
    /\ clickCalls = 0


(***************************************************************************)
(* Completion callback: the page script of index.ts that looks the         *)
(* widget's callback up in ___grecaptcha_cfg.clients[clientId] and calls   *)
(* it with the solved token.                                               *)
(***************************************************************************)

\* The paths the script tries, in the order of its if / else-if chain.
CallbackPaths == <<"u.u.callback", "callback", "u.callback", "i.callback">>

\* What a path of the client can hold: nothing (undefined, or a missing
\* parent object), a falsy value that is no function (""), a truthy value
\* that is no function (the name of a global handler), a function.
PathValues == {"absent", "empty", "name", "function"}

Clients == [{CallbackPaths[i] : i \in 1..Len(CallbackPaths)} -> PathValues]

\* JavaScript truthiness of a path value, as tested by if (client.callback).
IsTruthy(v) == v \in {"name", "function"}

\* typeof v === "function"
IsFunction(v) == v = "function"

\* The if / else-if chain: func is the value at the first truthy path, null
\* when no path is truthy.
SelectedPath(c) ==
    IF IsTruthy(c["u.u.callback"]) THEN "u.u.callback"
    ELSE IF IsTruthy(c["callback"]) THEN "callback"
    ELSE IF IsTruthy(c["u.callback"]) THEN "u.callback"
    ELSE IF IsTruthy(c["i.callback"]) THEN "i.callback"
    ELSE NoValue

\* if (func && typeof func === "function") func(token): the path whose
\* function is called, NoValue when the script calls nothing.
InvokedPath(c) ==
    LET path == SelectedPath(c)
    IN  IF path # NoValue /\ IsFunction(c[path]) THEN path ELSE NoValue

InitCallback ==
    /\ callbackPc = "ready"
    /\ clientFound \in BOOLEAN
    /\ client \in Clients
    /\ callbackToken \in Tokens
    /\ callbackPath = NoValue
    /\ calledWith = NoValue

\* page.evaluate(({token, clientId}) => ...): the whole page script.
InvokeCallback ==
    /\ callbackPc = "ready"
    /\ callbackPc' = "done"
    /\ callbackPath' = IF clientFound THEN InvokedPath(client) ELSE NoValue
    /\ calledWith' = IF callbackPath' # NoValue THEN callbackToken ELSE NoValue
    /\ UNCHANGED <<clientFound, client, callbackToken>>
    /\ UNCHANGED notCallbackVars

NextCallback ==
    \/ InvokeCallback

InitCallbackOnly ==
    InitCallback /\ SolverIdle /\ PollerIdle /\ FlowIdle /\ CaptureIdle /\ SessionIdle
    /\ ServerIdle
    /\ ClickIdle
    /\ BodyIdle
    /\ ConfigIdle
    /\ BannerIdle
    /\ InjectIdle
    /\ CookiesIdle
    /\ StampIdle

SpecCallback == InitCallbackOnly /\ [][NextCallback]_vars

\* The first path, in the order of CallbackPaths, that holds a function.
FirstCallable(c) ==
    IF \E i \in 1..Len(CallbackPaths) : IsFunction(c[CallbackPaths[i]])
    THEN CallbackPaths[CHOOSE i \in 1..Len(CallbackPaths) :
            /\ IsFunction(c[CallbackPaths[i]])
            /\ \A j \in 1..(i - 1) : ~IsFunction(c[CallbackPaths[j]])]
    ELSE NoValue

\* C28: once the script has run on a client that exists, the function it
\* called with the solved token is the one at the first path, in the order
\* u.u.callback, callback, u.callback, i.callback, that holds a function: a
\* value that is no function at an earlier path does not keep a function at
\* a later path from being called.
C28_FirstCallablePathIsInvoked ==
    (callbackPc = "done" /\ clientFound) =>
        /\ callbackPath = FirstCallable(client)
        /\ (callbackPath # NoValue => calledWith = callbackToken)


(***************************************************************************)
(* Token injection: the page script of injectTokenIntoGrecaptcha, which    *)
(* searches every client of ___grecaptcha_cfg for getResponse functions    *)
(* and replaces them by a function returning the solved token.             *)
(***************************************************************************)

\* if (depth > 4) return 0
MaxSearchDepth == 4

\* Objects of the page: the client, two objects below it and a grecaptcha
\* member.
Objs == {"client", "a", "b", "g"}

\* Property names, in the order for-in enumerates them: "u" is one of the
\* relevantKeys, "U" is an ordinary minified name (and one of the
\* patternsToCheck), "parentNode" is one of the domProperties.
KeyOrder == <<"u", "U", "parentNode", "grecaptcha">>

Keys == {KeyOrder[i] : i \in 1..Len(KeyOrder)}

Kinds == {"plain", "dom", "fiber", "window", "jquery"}

KindOf(obj) == IF obj = "b" THEN kindOfB ELSE "plain"

\* isIrrelevantObject: nodeType / tagName, React fiber fields, window ===
\* obj, jquery.
isIrrelevantObject(obj) ==
    obj # NoValue /\ KindOf(obj) \in {"dom", "fiber", "window", "jquery"}

\* shouldSkipPath: the key is a DOM, React fiber or window property name.
shouldSkipPath(key) == key \in {"parentNode"}

relevantKeys == {"u", "i", "J", "grecaptcha", "getResponse", "callback"}

isRelevantForRecursion(key, value, currentDepth) ==
    IF currentDepth <= 1
    THEN ~isIrrelevantObject(value)
    ELSE key \in relevantKeys /\ ~isIrrelevantObject(value)

ExceedsDepthNever(depth) == FALSE

ExceedsDepth(depth) == depth > MaxSearchDepth

\* Object.keys(obj) / for (const key in obj)
KeysOf(obj) == SelectSeq(KeyOrder, LAMBDA k : edges[obj][k] # NoValue)

\* References between client, a and b under the keys u, U and parentNode.
FreeEdges ==
    {<<s, k, t>> : s \in {"client", "a", "b"}, k \in {"u", "U", "parentNode"},
                   t \in {"client", "a", "b"}}

Functional(es) ==
    \A e1 \in es, e2 \in es : (e1[1] = e2[1] /\ e1[2] = e2[2]) => e1 = e2

\* Graphs of at most two references, the first one leaving the client.
EdgeSets ==
    {{}} \cup
    {es \in {{e1, e2} : e1 \in {e \in FreeEdges : e[1] = "client"}, e2 \in FreeEdges} :
        Functional(es)}

GrecaptchaEdge == <<"b", "grecaptcha", "g">>

GraphOf(es) ==
    [o \in Objs |-> [k \in Keys |->
        IF \E t \in Objs : <<o, k, t>> \in es
        THEN CHOOSE t \in Objs : <<o, k, t>> \in es
        ELSE NoValue]]

EmptyGraph == GraphOf({})

\* The objects patternsToCheck resolves on the client, in the order of the
\* list: client.u?.U, then client.U.
PatternObjects ==
    LET u == edges["client"]["u"]
        uU == IF u # NoValue THEN edges[u]["U"] ELSE NoValue
    IN  SelectSeq(<<uU, edges["client"]["U"]>>, LAMBDA o : o # NoValue)

\* The body of the loop over patternsToCheck for one object: replace
\* obj.getResponse and obj.grecaptcha.getResponse, create obj.grecaptcha
\* when it is missing, then replace getResponse of every member of obj.
CheckPattern(st, obj) ==
    LET g == edges[obj]["grecaptcha"]
        direct == IF obj \in hasGetResponse THEN {obj} ELSE {}
        creates == obj \notin st.created /\ g = NoValue
        nested == IF obj \notin st.created /\ g # NoValue /\ g \in hasGetResponse
                  THEN {g} ELSE {}
        made == obj \in st.created \/ creates
        members == {edges[obj][k] : k \in Keys} \cap hasGetResponse
    IN  [count |-> st.count + Cardinality(direct) + Cardinality(nested)
                   + (IF made THEN 1 ELSE 0)
                   + Cardinality(members) + (IF made THEN 1 ELSE 0),
         over |-> st.over \cup direct \cup nested \cup members,
         created |-> IF creates THEN st.created \cup {obj} ELSE st.created]

RECURSIVE CheckPatterns(_, _)
CheckPatterns(st, objs) ==
    IF objs = << >> THEN st
    ELSE CheckPatterns(CheckPattern(st, Head(objs)), Tail(objs))

InitInject ==
    /\ injectPc = "begin"
    /\ configPresent \in BOOLEAN
    /\ IF configPresent
       THEN /\ nullClient \in BOOLEAN
            /\ windowGrecaptcha \in {"absent", "bare", "api"}
            /\ \E es \in EdgeSets, withG \in BOOLEAN :
                  /\ edges = GraphOf(IF withG THEN es \cup {GrecaptchaEdge} ELSE es)
                  \* b and its grecaptcha member vary when the client reaches them
                  /\ IF \E e \in es : e[3] = "b"
                     THEN /\ kindOfB \in Kinds
                          /\ hasGetResponse \in SUBSET {"b", "g"}
                          /\ "g" \in hasGetResponse => withG
                     ELSE /\ kindOfB = "plain"
                          /\ hasGetResponse = {}
                          /\ ~withG
            \* the grecaptcha member of the window is window.grecaptcha
            /\ kindOfB = "window" =>
                  /\ edges["b"]["grecaptcha"] # NoValue <=> windowGrecaptcha # "absent"
                  /\ "g" \in hasGetResponse <=> windowGrecaptcha = "api"
       ELSE /\ nullClient = FALSE
            /\ kindOfB = "plain"
            /\ windowGrecaptcha = "absent"
            /\ edges = EmptyGraph
            /\ hasGetResponse = {}
    /\ stack = << >>
    /\ searched = {}
    /\ overriddenOriginal = {}
    /\ created = {}
    /\ totalOverrides = 0
    /\ injectResult = NoValue

\* if (!grecaptchaConfig || !grecaptchaConfig.clients) return false;
\* otherwise findAndOverrideGetResponse(client, `clients.${clientId}`).
BeginInject ==
    /\ injectPc = "begin"
    /\ IF configPresent
       THEN /\ injectPc' = "search"
            /\ stack' = <<[obj |-> "client", depth |-> 0, todo |-> KeysOf("client")]>>
            /\ searched' = {<<"client", 0>>}
            /\ UNCHANGED injectResult
       ELSE /\ injectPc' = "done"
            /\ injectResult' = "false"
            /\ UNCHANGED <<stack, searched>>
    /\ UNCHANGED <<configPresent, nullClient, edges, kindOfB, hasGetResponse,
                   windowGrecaptcha, overriddenOriginal, created, totalOverrides>>
    /\ UNCHANGED notInjectVars

\* One turn of the for-in loop of findAndOverrideGetResponse: the value's
\* getResponse and grecaptcha.getResponse are replaced, then the search
\* calls itself on the value, which returns at once for a depth beyond the
\* limit or an irrelevant object.
SearchKey ==
    /\ injectPc = "search"
    /\ stack # << >>
    /\ Head(stack).todo # << >>
    /\ LET frame == Head(stack)
           key == Head(frame.todo)
           value == edges[frame.obj][key]
           rest == [frame EXCEPT !.todo = Tail(@)]
           g == edges[value]["grecaptcha"]
           found == (IF value \in hasGetResponse THEN {value} ELSE {})
                    \cup (IF g # NoValue /\ g \in hasGetResponse THEN {g} ELSE {})
       IN  IF shouldSkipPath(key)
           THEN /\ stack' = <<rest>> \o Tail(stack)
                /\ UNCHANGED <<searched, overriddenOriginal, totalOverrides>>
           ELSE /\ overriddenOriginal' = overriddenOriginal \cup found
                /\ totalOverrides' = totalOverrides + Cardinality(found)
                /\ IF /\ isRelevantForRecursion(key, value, frame.depth)
                      /\ ~ExceedsDepth(frame.depth + 1)
                      /\ ~isIrrelevantObject(value)
                   THEN /\ stack' = <<[obj |-> value, depth |-> frame.depth + 1,
                                       todo |-> KeysOf(value)], rest>> \o Tail(stack)
                        /\ searched' = searched \cup {<<value, frame.depth + 1>>}
                   ELSE /\ stack' = <<rest>> \o Tail(stack)
                        /\ UNCHANGED searched
    /\ UNCHANGED <<injectPc, configPresent, nullClient, edges, kindOfB,
                   hasGetResponse, windowGrecaptcha, created, injectResult>>
    /\ UNCHANGED notInjectVars

\* return count: the innermost call is over; when it was the call on the
\* client, the search is over (a null client has no property to enumerate).
SearchReturn ==
    /\ injectPc = "search"
    /\ stack # << >>
    /\ Head(stack).todo = << >>
    /\ stack' = Tail(stack)
    /\ injectPc' = IF Tail(stack) = << >> THEN "patterns" ELSE "search"
    /\ UNCHANGED <<configPresent, nullClient, edges, kindOfB, hasGetResponse,
                   windowGrecaptcha, searched, overriddenOriginal, created,
                   totalOverrides, injectResult>>
    /\ UNCHANGED notInjectVars

\* The second loop over the clients: patternsToCheck on the client, then
\* Object.keys(client) throws on the null client and the catch block
\* returns false.
TargetedPatterns ==
    /\ injectPc = "patterns"
    /\ LET st == CheckPatterns([count |-> totalOverrides, over |-> overriddenOriginal,
                                created |-> created], PatternObjects)
       IN  /\ totalOverrides' = st.count
           /\ overriddenOriginal' = st.over
           /\ created' = st.created
    /\ IF nullClient
       THEN injectPc' = "done" /\ injectResult' = "false"
       ELSE injectPc' = "fallback" /\ UNCHANGED injectResult
    /\ UNCHANGED <<configPresent, nullClient, edges, kindOfB, hasGetResponse,
                   windowGrecaptcha, stack, searched>>
    /\ UNCHANGED notInjectVars

\* window.grecaptcha.getResponse is assigned and render wrapped, then
\* return totalOverrides > 0.
GlobalFallback ==
    /\ injectPc = "fallback"
    /\ totalOverrides' = totalOverrides +
          (CASE windowGrecaptcha = "absent" -> 0
             [] windowGrecaptcha = "bare" -> 1
             [] windowGrecaptcha = "api" -> 2)
    /\ overriddenOriginal' = IF windowGrecaptcha = "api"
                             THEN overriddenOriginal \cup {"window.grecaptcha"}
                             ELSE overriddenOriginal
    /\ injectResult' = IF totalOverrides' > 0 THEN "true" ELSE "false"
    /\ injectPc' = "done"
    /\ UNCHANGED <<configPresent, nullClient, edges, kindOfB, hasGetResponse,
                   windowGrecaptcha, stack, searched, created>>
    /\ UNCHANGED notInjectVars

NextInject ==
    \/ BeginInject
    \/ SearchKey
    \/ SearchReturn
    \/ TargetedPatterns
    \/ GlobalFallback

InitInjectOnly ==
    InitInject /\ SolverIdle /\ PollerIdle /\ FlowIdle /\ CaptureIdle /\ SessionIdle
    /\ ServerIdle
    /\ ClickIdle
    /\ BodyIdle
    /\ ConfigIdle
    /\ BannerIdle
    /\ CookiesIdle
    /\ StampIdle
    /\ CallbackIdle

SpecInject == InitInjectOnly /\ [][NextInject]_vars

\* The page script runs to its end once started.
SpecInjectFair == SpecInject /\ WF_vars(NextInject)

\* C29: injectTokenIntoGrecaptcha returns true exactly when a getResponse
\* function that the page already had was found and replaced, and false
\* otherwise.
C29_TrueExactlyWhenExistingOverridden ==
    injectPc = "done" => (injectResult = "true" <=> overriddenOriginal # {})


\* Every call of findAndOverrideGetResponse that enumerated the properties
\* of its argument did so at most MaxSearchDepth levels below the client and
\* on an object that is no DOM node, fiber node, window or jQuery object.
SearchStaysInBounds ==
    /\ \A call \in searched :
          call[2] <= MaxSearchDepth /\ ~isIrrelevantObject(call[1])
    /\ \A i \in 1..Len(stack) :
          stack[i].depth <= MaxSearchDepth /\ ~isIrrelevantObject(stack[i].obj)
    /\ Len(stack) <= MaxSearchDepth + 1

C31_CookiesReadBackWhenCaptureEnds ==
    [][(/\ captureOutcome.kind = "pending"
        /\ captureOutcome'.kind # "pending"
        /\ tokenPromise.state # "pending") => ipc = "get_cookies"]_vars

\* C37: once interceptSlackAuthWithCookies has ended with its timer created,
\* the timer has fired or has been cleared.
C37_NoTimerPendingAfterCallEnds ==
    (captureOutcome.kind # "pending" /\ timer # "none") =>
        timer \in {"fired", "cleared"}


(***************************************************************************)
(* Cookie banners: dismissCookieBanners, called by handleSlackLoginFlow    *)
(* before its try block and by clickWorkspace inside its try block.        *)
(***************************************************************************)

Banners ==
    {"none", "onetrust_accept", "onetrust_reject", "onetrust_bare",
     "slack_1", "slack_2", "slack_3"}

\* '[data-qa="banner_acknowledge_button"]', '.p-banner__acknowledge',
\* '[data-qa="cookie_banner_accept"]'
slackCookieSelectors == <<"slack_1", "slack_2", "slack_3">>

\* The page operations of dismissCookieBanners that can throw.
BannerOperations ==
    {"screenshot_before", "onetrust_visible", "onetrust_screenshot",
     "accept_visible", "accept_click", "reject_visible", "reject_click",
     "after_screenshot", "slack_visible", "slack_click", "screenshot_none",
     "debug_count"}

BannerCallers == {"handleSlackLoginFlow", "clickWorkspace"}

Throws(op) == faultAt = op

\* An error that leaves dismissCookieBanners: no try block is around it.
DismissRejects ==
    /\ bannerPc' = "caller"
    /\ dismissOutcome' = "rejected"

DismissReturns ==
    /\ bannerPc' = "caller"
    /\ dismissOutcome' = "resolved"

\* The caller after the step: handleSlackLoginFlow calls it before its try
\* block, clickWorkspace inside a try whose catch logs and rethrows.
CallerAfter(calledBy, dismissal) ==
    IF dismissal = "resolved" THEN "continues" ELSE "rejected"

InitBanner ==
    /\ bannerPc = "screenshot_before"
    /\ bannerCaller \in BannerCallers
    /\ banner \in Banners
    /\ faultAt \in BannerOperations \cup {NoValue}
    /\ bannerDismissed = FALSE
    /\ dismissOutcome = "pending"
    /\ callerState = "waiting"

\* await page.screenshot({ path: before-cookie-banner-detection })
ScreenshotBefore ==
    /\ bannerPc = "screenshot_before"
    /\ IF Throws("screenshot_before")
       THEN DismissRejects
       ELSE bannerPc' = "onetrust" /\ UNCHANGED dismissOutcome
    /\ UNCHANGED <<bannerCaller, banner, faultAt, bannerDismissed, callerState>>
    /\ UNCHANGED notBannerVars

\* const oneTrustVisible = await oneTrustBanner.isVisible(...)
CheckOneTrust ==
    /\ bannerPc = "onetrust"
    /\ IF Throws("onetrust_visible")
       THEN DismissRejects
       ELSE /\ bannerPc' = IF banner \in {"onetrust_accept", "onetrust_reject",
                                          "onetrust_bare"}
                           THEN "onetrust_buttons" ELSE "slack"
            /\ UNCHANGED dismissOutcome
    /\ UNCHANGED <<bannerCaller, banner, faultAt, bannerDismissed, callerState>>
    /\ UNCHANGED notBannerVars

\* The accept button, then the reject button of the OneTrust banner.
OneTrustButtons ==
    /\ bannerPc = "onetrust_buttons"
    /\ IF Throws("onetrust_screenshot") \/ Throws("accept_visible")
       THEN DismissRejects /\ UNCHANGED bannerDismissed
       ELSE IF banner = "onetrust_accept"
       THEN IF Throws("accept_click")
            THEN DismissRejects /\ UNCHANGED bannerDismissed
            ELSE /\ bannerDismissed' = TRUE
                 /\ IF Throws("after_screenshot") THEN DismissRejects ELSE DismissReturns
       ELSE IF Throws("reject_visible")
       THEN DismissRejects /\ UNCHANGED bannerDismissed
       ELSE IF banner = "onetrust_reject"
       THEN IF Throws("reject_click")
            THEN DismissRejects /\ UNCHANGED bannerDismissed
            ELSE /\ bannerDismissed' = TRUE
                 /\ IF Throws("after_screenshot") THEN DismissRejects ELSE DismissReturns
       ELSE bannerPc' = "slack" /\ UNCHANGED <<dismissOutcome, bannerDismissed>>
    /\ UNCHANGED <<bannerCaller, banner, faultAt, callerState>>
    /\ UNCHANGED notBannerVars

\* for (const selector of slackCookieSelectors) try { ... } catch { continue }
SlackBanners ==
    /\ bannerPc = "slack"
    /\ LET shown == \E i \in 1..Len(slackCookieSelectors) : slackCookieSelectors[i] = banner
           clicked == shown /\ ~Throws("slack_visible") /\ ~Throws("slack_click")
       IN  /\ bannerDismissed' = clicked
           /\ IF clicked /\ ~Throws("after_screenshot")
              THEN DismissReturns
              ELSE bannerPc' = "screenshot_none" /\ UNCHANGED dismissOutcome
    /\ UNCHANGED <<bannerCaller, banner, faultAt, callerState>>
    /\ UNCHANGED notBannerVars

\* await page.screenshot({ path: no-cookie-banners-found }), then the debug
\* loop, whose errors are ignored.
NoBannerFound ==
    /\ bannerPc = "screenshot_none"
    /\ IF Throws("screenshot_none") THEN DismissRejects ELSE DismissReturns
    /\ UNCHANGED <<bannerCaller, banner, faultAt, bannerDismissed, callerState>>
    /\ UNCHANGED notBannerVars

\* Back in the caller: it goes on to look at the page, or rejects.
CallerResumes ==
    /\ bannerPc = "caller"
    /\ callerState' = CallerAfter(bannerCaller, dismissOutcome)
    /\ bannerPc' = "done"
    /\ UNCHANGED <<bannerCaller, banner, faultAt, bannerDismissed, dismissOutcome>>
    /\ UNCHANGED notBannerVars

NextBanner ==
    \/ ScreenshotBefore
    \/ CheckOneTrust
    \/ OneTrustButtons
    \/ SlackBanners
    \/ NoBannerFound
    \/ CallerResumes

InitBannerOnly ==
    InitBanner /\ SolverIdle /\ PollerIdle /\ FlowIdle /\ CaptureIdle /\ SessionIdle
    /\ ServerIdle
    /\ ClickIdle
    /\ BodyIdle
    /\ ConfigIdle
    /\ CookiesIdle
    /\ StampIdle
    /\ CallbackIdle
    /\ InjectIdle

SpecBanner == InitBannerOnly /\ [][NextBanner]_vars

\* C32: whatever banner the page shows and whichever operation on it fails,
\* the dismissal step does not make its caller fail: the caller goes on to
\* look at the page.
C32_DismissalNeverFailsTheCaller ==
    bannerPc = "done" => callerState = "continues"


(***************************************************************************)
(* Settings: the login driver reads its own settings before it launches    *)
(* the browser; getSlackVerificationCode reads the Gmail settings when it  *)
(* is called.                                                              *)
(***************************************************************************)

\* env.get(...).required().asString() at the top of the driver
DriverSettings == {"SOLVECAPTCHA_API_KEY", "PAGE_URL", "SITE_KEY", "USER_EMAIL"}

\* env.GMAIL_CLIENT_ID || "", ... in getSlackVerificationCode
GmailSettings == {"GMAIL_CLIENT_ID", "GMAIL_CLIENT_SECRET", "GMAIL_REDIRECT_URI"}

\* .required(): the read throws when the variable is not set.
RequiredAtStartup == DriverSettings

InitConfig ==
    /\ configPc = "read_settings"
    /\ settingsPresent \in SUBSET (DriverSettings \cup GmailSettings)
    /\ verificationAsked \in BOOLEAN
    /\ operationsStarted = {}
    /\ configError = NoValue

\* const SOLVECAPTCHA_KEY = env.get('SOLVECAPTCHA_API_KEY').required()...
ReadDriverSettings ==
    /\ configPc = "read_settings"
    /\ IF RequiredAtStartup \subseteq settingsPresent
       THEN configPc' = "launch" /\ UNCHANGED configError
       ELSE configPc' = "done" /\ configError' = "MissingDriverSetting"
    /\ UNCHANGED <<settingsPresent, verificationAsked, operationsStarted>>
    /\ UNCHANGED notConfigVars

\* const browser = await chromium.launch(); ... the sign-in form is filled.
LaunchBrowser ==
    /\ configPc = "launch"
    /\ operationsStarted' = operationsStarted \cup {"browser"}
    /\ configPc' = "solve"
    /\ UNCHANGED <<settingsPresent, verificationAsked, configError>>
    /\ UNCHANGED notConfigVars

\* provider.solveCaptcha(...), token injection, submit.
SolveChallenge ==
    /\ configPc = "solve"
    /\ operationsStarted' = operationsStarted \cup {"solver"}
    /\ configPc' = IF verificationAsked THEN "verification" ELSE "done"
    /\ UNCHANGED <<settingsPresent, verificationAsked, configError>>
    /\ UNCHANGED notConfigVars

\* getSlackVerificationCode: the Gmail settings are read and validated, then
\* the inbox is polled.
GetSlackVerificationCode ==
    /\ configPc = "verification"
    /\ IF GmailSettings \subseteq settingsPresent
       THEN /\ operationsStarted' = operationsStarted \cup {"inbox"}
            /\ UNCHANGED configError
       ELSE /\ configError' = "MissingGmailSetting"
            /\ UNCHANGED operationsStarted
    /\ configPc' = "done"
    /\ UNCHANGED <<settingsPresent, verificationAsked>>
    /\ UNCHANGED notConfigVars

NextConfig ==
    \/ ReadDriverSettings
    \/ LaunchBrowser
    \/ SolveChallenge
    \/ GetSlackVerificationCode

InitConfigOnly ==
    InitConfig /\ SolverIdle /\ PollerIdle /\ FlowIdle /\ CaptureIdle /\ SessionIdle
    /\ ServerIdle
    /\ ClickIdle
    /\ BodyIdle
    /\ CookiesIdle
    /\ StampIdle
    /\ CallbackIdle
    /\ InjectIdle
    /\ BannerIdle

SpecConfig == InitConfigOnly /\ [][NextConfig]_vars

\* C33: a missing required setting, the Gmail settings of the verification
\* branch included, is raised before any browser, solver or inbox operation
\* has started.
C33_MissingSettingRaisedBeforeAnyOperation ==
    configError # NoValue => operationsStarted = {}


(***************************************************************************)
(* getEmailBody applied to MIME payload trees of up to three levels.       *)
(***************************************************************************)

\* Texts of body segments: none, "A", "B".
SegmentTexts == {<< >>, <<65>>, <<66>>}

\* The lists of at most two parts taken from a set of parts.
PartLists(S) == {<< >>} \cup {<<a>> : a \in S} \cup {<<a, b>> : a \in S, b \in S}

LeafParts == {Leaf(t) : t \in SegmentTexts}

InnerParts == {Part(t, ps) : t \in SegmentTexts, ps \in PartLists(LeafParts)}

Payloads == {Part(t, ps) : t \in SegmentTexts, ps \in PartLists(InnerParts)}

InitBody ==
    /\ bodyPc = "ready"
    /\ mimePayload \in Payloads
    /\ emailBody = << >>

\* const body = getEmailBody(message.payload)
GetEmailBody ==
    /\ bodyPc = "ready"
    /\ emailBody' = getEmailBody(mimePayload)
    /\ bodyPc' = "done"
    /\ UNCHANGED mimePayload
    /\ UNCHANGED notBodyVars

NextBody ==
    \/ GetEmailBody

InitBodyOnly ==
    InitBody /\ SolverIdle /\ PollerIdle /\ FlowIdle /\ CaptureIdle /\ SessionIdle
    /\ ServerIdle
    /\ ClickIdle
    /\ CookiesIdle
    /\ StampIdle
    /\ CallbackIdle
    /\ InjectIdle
    /\ BannerIdle
    /\ ConfigIdle

SpecBody == InitBodyOnly /\ [][NextBody]_vars

\* The decoded data of every segment of the tree, in document order.
RECURSIVE AllSegments(_)
RECURSIVE AllSegmentsOf(_, _)
AllSegmentsOf(parts, i) ==
    IF i > Len(parts) THEN << >>
    ELSE AllSegments(parts[i]) \o AllSegmentsOf(parts, i + 1)

AllSegments(part) ==
    Base64Decode(part.data) \o AllSegmentsOf(part.parts, 1)

\* C34: getEmailBody returns the decoded data of every body segment of the
\* payload tree, at any depth, concatenated in document order (and null, the
\* empty text here, only when the tree holds no data).
C34_BodyIsEverySegmentInOrder ==
    bodyPc = "done" => emailBody = AllSegments(mimePayload)


\* While handleSlackLoginFlow is running it has not called clickWorkspace
\* yet: the call of clickWorkspace is its last step.
NoClickBeforeTheFlowEnds ==
    flowOutcome = "pending" => clickCalls = 0

\* The step that ends handleSlackLoginFlow: it resolves out of its one call
\* of clickWorkspace, which resolved, or rejects with the error that made it
\* fail.
FlowEndsWithItsOneClick ==
    (flowOutcome = "pending" /\ flowOutcome' # "pending") =>
        /\ clickCalls' <= 1
        /\ flowOutcome' = "resolved" => (clickCalls' = 1 /\ clickResult' = "resolved")
        /\ flowOutcome' = "rejected" => thrown' = ErrorOf(error')

C36_AttemptedGuardIsNeverTrueWhenTested ==
    /\ fpc \in {"probe", "delayed"} => ~workspaceSelectionAttempted
    /\ branch # "skip"
    /\ firstProbe # NoValue /\ branch \in {"workspace", "verification"} =>
          branch = FirstMatch(Markers(firstProbe), FALSE)
    /\ secondProbe # NoValue /\ fpc # "done" =>
          branch = DelayedMatch(Markers(secondProbe), FALSE)

\* The delayed probe has found the workspace links and the flow has gone on
\* to clickWorkspace.
C36_Witness ==
    /\ secondProbe # NoValue
    /\ branch = "delayed_workspace"
    /\ workspaceSelectionAttempted
    /\ clickCalls = 1


(***************************************************************************)
(* clickWorkspace when a click throws: options 1 and 2 click outside any   *)
(* inner try block, options 3a to 3d each inside their own.                *)
(***************************************************************************)

\* The strategy has a try / catch of its own around its wait and its click.
HasOwnTryNever(k) == FALSE

HasOwnTry(k) == k >= StrategyIndex("directButton")

InitClick ==
    /\ cwPc = 1
    /\ cwTargets \in TargetChoices
    /\ cwThrowing \in SUBSET cwTargets
    /\ cwWorking \in cwTargets \cup {NoValue}
    /\ cwAttempts = << >>
    /\ cwOutcome = "pending"
    /\ cwError = NoValue

\* One strategy: its element is looked for and clicked, the click is
\* verified; an error of the click leaves clickWorkspace through the outer
\* catch, which rethrows, unless the strategy has its own try block.
TryStrategy ==
    /\ cwOutcome = "pending"
    /\ cwPc \in 1..Len(Strategies)
    /\ LET s == Strategies[cwPc] IN
       IF s \notin cwTargets
       THEN /\ cwPc' = cwPc + 1
            /\ UNCHANGED <<cwAttempts, cwOutcome, cwError>>
       ELSE /\ cwAttempts' = Append(cwAttempts, s)
            /\ IF s \in cwThrowing
               THEN IF HasOwnTry(cwPc)
                    THEN /\ cwPc' = cwPc + 1
                         /\ UNCHANGED <<cwOutcome, cwError>>
                    ELSE /\ cwOutcome' = "rejected"
                         /\ cwError' = "ClickError"
                         /\ UNCHANGED cwPc
               ELSE IF ClickVerified(s, cwWorking, "url")
                    THEN /\ cwOutcome' = "resolved"
                         /\ UNCHANGED <<cwPc, cwError>>
                    ELSE /\ cwPc' = cwPc + 1
                         /\ UNCHANGED <<cwOutcome, cwError>>
    /\ UNCHANGED <<cwTargets, cwThrowing, cwWorking>>
    /\ UNCHANGED notClickVars

\* if (!clickSucceeded) { ... throw new Error("Failed to successfully click
\* workspace ...") }
GiveUp ==
    /\ cwOutcome = "pending"
    /\ cwPc > Len(Strategies)
    /\ cwOutcome' = "rejected"
    /\ cwError' = "WorkspaceClickFailed"
    /\ UNCHANGED <<cwPc, cwTargets, cwThrowing, cwWorking, cwAttempts>>
    /\ UNCHANGED notClickVars

NextClick ==
    \/ TryStrategy
    \/ GiveUp

InitClickOnly ==
    InitClick /\ SolverIdle /\ PollerIdle /\ FlowIdle /\ CaptureIdle /\ SessionIdle
    /\ ServerIdle
    /\ CookiesIdle
    /\ StampIdle
    /\ CallbackIdle
    /\ InjectIdle
    /\ BannerIdle
    /\ ConfigIdle
    /\ BodyIdle

SpecClick == InitClickOnly /\ [][NextClick]_vars

\* The strategies after the k-th whose element is on the page.
LaterTargets(k) ==
    {j \in (k + 1)..Len(Strategies) : Strategies[j] \in cwTargets}

\* C38: a click that throws in strategy 1 or 2 ends clickWorkspace with that
\* error and is its last attempt; a click that throws in one of the
\* authenticate-button strategies is caught, and the next strategy whose
\* element is on the page is attempted.
C38_LinkClickErrorsPropagateButtonErrorsAreCaught ==
    \A n \in 1..Len(cwAttempts) :
        LET k == StrategyIndex(cwAttempts[n]) IN
        cwAttempts[n] \in cwThrowing =>
            IF k < StrategyIndex("directButton")
            THEN /\ n = Len(cwAttempts)
                 /\ cwOutcome = "rejected"
                 /\ cwError = "ClickError"
            ELSE /\ cwError # "ClickError"
                 /\ cwPc > k
                 /\ \A j \in LaterTargets(k) :
                       ( /\ \A i \in LaterTargets(k) : j <= i
                         /\ cwPc > j \/ (cwPc = j /\ cwOutcome # "pending") )
                       => \E m \in (n + 1)..Len(cwAttempts) :
                             cwAttempts[m] = Strategies[j]

\* The click of the direct button threw, and the generic button was clicked
\* after it.
C38_Witness ==
    /\ cwOutcome = "resolved"
    /\ cwAttempts = <<"directButton", "genericButton">>
    /\ "directButton" \in cwThrowing

(***************************************************************************)
(* The two polling loops together                                          *)
(***************************************************************************)
\* Either a solveCaptcha call or a pollForSlackCode call is under way.
InitPolling == InitSolverOnly \/ InitPollerOnly

\* Which of the two calls is under way.
PollerRuns == ppc # "idle"

SolverRuns == ~PollerRuns

NextPolling == (SolverRuns /\ NextSolver) \/ (PollerRuns /\ NextPoller)

SpecPolling == InitPolling /\ [][NextPolling]_vars

\* The k-th getTaskResult request of provider p failed (the call threw).
PollThrew(p, k) == k <= getCalls[p] /\ svcPolls[k].kind = "unreachable"

\* solveCaptcha: a poll that threw was the last one, and the call has
\* rejected with that failure.
SolverStopsAtThrownPoll ==
    SolverRuns =>
    \A p \in Providers : \A k \in 1..Len(svcPolls) :
        PollThrew(p, k)
        => /\ getCalls[p] = k
           /\ spc[p] = "done"
           /\ outcome[p].kind = "rejected"
           /\ outcome[p].error = "poll_threw"

\* pollForSlackCode: a messages.get that threw has ended the call with the
\* Gmail error.
PollerStopsAtThrownGet ==
    (PollerRuns /\ lastFetched.decision = "threw")
    => /\ ppc = "done"
       /\ pollOutcome.kind = "rejected"
       /\ pollOutcome.error = "api_error"

\* pollForSlackCode: a request that ends the call while it is awaited ends
\* it with the Gmail error or (messages.get) with a code, never with a
\* timeout, and a call that has ended makes no further request.
PollerRequestEndsCall ==
    /\ (ppc = "listing" /\ ppc' = "done")
       => pollOutcome'.kind = "rejected" /\ pollOutcome'.error = "api_error"
    /\ (ppc = "iterating" /\ ppc' = "done" /\ lastFetched'.decision = "threw")
       => pollOutcome'.kind = "rejected" /\ pollOutcome'.error = "api_error"
    /\ ppc = "done" => UNCHANGED <<ppc, searches, lastFetched, pollOutcome>>
    /\ SolverRuns => \A p \in Providers :
          (spc[p] = "done" /\ outcome[p].error = "poll_threw")
          => UNCHANGED <<spc[p], getCalls[p], outcome[p]>>

\* C39: in both polling loops (solveCaptcha, pollForSlackCode) a poll call
\* that throws stops the loop at once and its error reaches the caller: no
\* further poll is made, and the failure becomes neither a pending result
\* nor a timeout.
C39_ThrownPollStopsTheLoop ==
    /\ [](SolverStopsAtThrownPoll /\ PollerStopsAtThrownGet)
    /\ [][PollerRequestEndsCall]_vars

\* Witness of C39: the second getTaskResult request of a provider threw
\* after a pending first one, and the call has rejected with that failure.
C39_Witness ==
    SolverRuns /\ \E p \in Providers :
        /\ getCalls[p] = 2
        /\ svcPolls[1].kind = "pending"
        /\ PollThrew(p, 2)
        /\ outcome[p].error = "poll_threw"


(***************************************************************************)
(* The API server: plugin registration, listen, route handlers              *)
(***************************************************************************)
\* Requests handled before the server shuts down.
MaxHandled == 3

\* The routes of the routes plugin.
StaticRoutes == {"GET /health", "GET /api/status"}

SlackRoutes ==
    {"GET /api/slack/user-boot", "GET /api/slack/recent-messages",
     "GET /api/slack/channels", "GET /api/slack/conversations",
     "GET /api/slack/conversations/:channelId/history",
     "GET /api/slack/conversations/:channelId/replies/:timestamp",
     "POST /api/slack/messages", "DELETE /api/slack/messages"}

ServerRoutes == StaticRoutes \cup SlackRoutes

\* How createSlackApi can reject inside the plugin.
CaptureErrors ==
    (InterceptOutcomes \ {"resolved"}) \cup {"NewContextError", "NewPageError"}

\* (mutant) the catch block of the plugin only logs.
PluginRethrowsNever == FALSE

\* The catch block of slackApiPlugin ends with `throw error'.
PluginRethrows == TRUE

\* No handler has replied yet; the process has not ended.
NoReply == [route |-> NoValue, code |-> 0, slackApiReady |-> FALSE]

NoExit == [how |-> NoValue, error |-> NoValue]

InitServer ==
    /\ srvPc = "register_cors"
    /\ srvCapture = NoValue
    /\ srvDecorated = FALSE
    /\ srvRoutes = FALSE
    /\ srvListening = FALSE
    /\ srvListens = 0
    /\ srvHandled = 0
    /\ srvLastReply = NoReply
    /\ srvExit = NoExit

\* A top-level await rejects: the module evaluation fails and start() is
\* never called.
StartupRejects(err) ==
    /\ srvPc' = "exited"
    /\ srvExit' = [how |-> "uncaught_rejection", error |-> err]

\* The try block of slackApiPlugin throws err: the catch logs and rethrows,
\* so `await fastify.register(slackApiPlugin)' rejects.
PluginFails(err) ==
    IF PluginRethrows
    THEN StartupRejects(err)
    ELSE srvPc' = "register_routes" /\ UNCHANGED srvExit

\* await fastify.register(cors, ...)
RegisterCors ==
    /\ srvPc = "register_cors"
    /\ \/ srvPc' = "credentials" /\ UNCHANGED srvExit
       \/ StartupRejects("CorsError")
    /\ UNCHANGED <<srvCapture, srvDecorated, srvRoutes, srvListening, srvListens,
                   srvHandled, srvLastReply>>
    /\ UNCHANGED notServerVars

\* The plugin decodes the storage credentials (Buffer.from, JSON.parse) and
\* builds the cookie loader.
PluginCredentials ==
    /\ srvPc = "credentials"
    /\ \/ srvPc' = "launch" /\ UNCHANGED srvExit
       \/ PluginFails("CredentialsError")
    /\ UNCHANGED <<srvCapture, srvDecorated, srvRoutes, srvListening, srvListens,
                   srvHandled, srvLastReply>>
    /\ UNCHANGED notServerVars

\* const browser = await chromium.launch()
PluginLaunch ==
    /\ srvPc = "launch"
    /\ \/ srvPc' = "create_slack_api" /\ UNCHANGED srvExit
       \/ PluginFails("LaunchError")
    /\ UNCHANGED <<srvCapture, srvDecorated, srvRoutes, srvListening, srvListens,
                   srvHandled, srvLastReply>>
    /\ UNCHANGED notServerVars

\* const slackApi = await slackApiFactory.createSlackApi(): the token
\* capture resolves with a session or rejects.
PluginCreateSlackApi ==
    /\ srvPc = "create_slack_api"
    /\ \/ /\ srvCapture' = "captured"
          /\ srvPc' = "decorate"
          /\ UNCHANGED srvExit
       \/ \E err \in CaptureErrors :
             /\ srvCapture' = err
             /\ PluginFails(err)
    /\ UNCHANGED <<srvDecorated, srvRoutes, srvListening, srvListens,
                   srvHandled, srvLastReply>>
    /\ UNCHANGED notServerVars

\* fastify.decorate('slackApi', ...), 'browser', 'workspaceUrl'; the onClose
\* hook; the plugin returns.
PluginDecorate ==
    /\ srvPc = "decorate"
    /\ srvDecorated' = TRUE
    /\ srvPc' = "register_routes"
    /\ UNCHANGED <<srvCapture, srvRoutes, srvListening, srvListens,
                   srvHandled, srvLastReply, srvExit>>
    /\ UNCHANGED notServerVars

\* await fastify.register(routesPlugin): the routes are declared.
RegisterRoutes ==
    /\ srvPc = "register_routes"
    /\ srvRoutes' = TRUE
    /\ srvPc' = "start"
    /\ UNCHANGED <<srvCapture, srvDecorated, srvListening, srvListens,
                   srvHandled, srvLastReply, srvExit>>
    /\ UNCHANGED notServerVars

\* start(): await fastify.listen(...); on failure the catch logs and calls
\* process.exit(1).
Listen ==
    /\ srvPc = "start"
    /\ \/ /\ srvListening' = TRUE
          /\ srvListens' = srvListens + 1
          /\ srvPc' = "serving"
          /\ UNCHANGED srvExit
       \/ /\ srvPc' = "exited"
          /\ srvExit' = [how |-> "exit_1", error |-> "ListenError"]
          /\ UNCHANGED <<srvListening, srvListens>>
    /\ UNCHANGED <<srvCapture, srvDecorated, srvRoutes, srvHandled, srvLastReply>>
    /\ UNCHANGED notServerVars

\* The reply of a route handler (slackApiReady: the body says
\* `slackApiReady: true'): /health and /api/status answer from constants; a
\* Slack route calls fastify.slackApi inside try / catch.
RouteReplies(route) ==
    IF route = "GET /health"
    THEN {[route |-> route, code |-> 200, slackApiReady |-> TRUE]}
    ELSE IF route = "GET /api/status"
    THEN {[route |-> route, code |-> 200, slackApiReady |-> FALSE]}
    ELSE IF srvDecorated
    THEN {[route |-> route, code |-> c, slackApiReady |-> FALSE] : c \in {200, 500}}
    ELSE {[route |-> route, code |-> 500, slackApiReady |-> FALSE]}

\* A request arrives while the server listens and its route handler runs.
HandleRequest ==
    /\ srvPc = "serving"
    /\ srvListening
    /\ srvRoutes
    /\ srvHandled < MaxHandled
    /\ \E route \in ServerRoutes : \E reply \in RouteReplies(route) :
          srvLastReply' = reply
    /\ srvHandled' = srvHandled + 1
    /\ UNCHANGED <<srvPc, srvCapture, srvDecorated, srvRoutes, srvListening,
                   srvListens, srvExit>>
    /\ UNCHANGED notServerVars

\* SIGTERM / SIGINT: await fastify.close()
CloseServer ==
    /\ srvPc = "serving"
    /\ srvListening' = FALSE
    /\ srvPc' = "exited"
    /\ srvExit' = [how |-> "closed", error |-> NoValue]
    /\ UNCHANGED <<srvCapture, srvDecorated, srvRoutes, srvListens, srvHandled,
                   srvLastReply>>
    /\ UNCHANGED notServerVars

NextServer ==
    \/ RegisterCors
    \/ PluginCredentials
    \/ PluginLaunch
    \/ PluginCreateSlackApi
    \/ PluginDecorate
    \/ RegisterRoutes
    \/ Listen
    \/ HandleRequest
    \/ CloseServer

InitServerOnly ==
    InitServer /\ SolverIdle /\ PollerIdle /\ FlowIdle /\ CaptureIdle /\ SessionIdle
    /\ CookiesIdle /\ StampIdle /\ CallbackIdle /\ InjectIdle /\ BannerIdle
    /\ ConfigIdle /\ BodyIdle /\ ClickIdle

SpecServer == InitServerOnly /\ [][NextServer]_vars

\* The plugin has captured a session and decorated the instance with it.
SessionCaptured == srvCapture = "captured" /\ srvDecorated

\* The server has started listening at some time.
HasListened == srvListens > 0

\* C40: no route handler runs before the token capture has completed: the
\* server has started listening only with a session captured and the
\* instance decorated, it never starts listening when the capture failed,
\* and /health has reported slackApiReady only with a captured session.
C40_NoHandlerBeforeCapture ==
    /\ (HasListened \/ srvListening) => SessionCaptured
    /\ srvHandled > 0 => SessionCaptured /\ HasListened
    /\ srvCapture \in CaptureErrors => ~HasListened /\ ~srvListening /\ srvHandled = 0
    /\ srvLastReply.slackApiReady => SessionCaptured

\* Witness of C40: /health has answered slackApiReady on a server that
\* listens after the capture.
C40_Witness ==
    /\ srvListening
    /\ SessionCaptured
    /\ srvHandled > 0
    /\ srvLastReply.route = "GET /health"
    /\ srvLastReply.slackApiReady

\* The capture failed and the process has ended without listening.
CaptureFailedNeverListened ==
    /\ srvCapture \in CaptureErrors
    /\ srvPc = "exited"
    /\ ~HasListened

=============================================================================
